---- MODULE Spec2Model ----
(***************************************************************************)
(* PhynixDrive backend: folder / file tree with soft delete and trash,     *)
(* role based sharing with folder inheritance, and the storage quota.      *)
(*                                                                         *)
(* The MongoDB collections are functions from document id to document.     *)
(* A path string "a/b/c" is the sequence <<"a","b","c">> of its segments   *)
(* (no modelled name contains '/' or a regex metacharacter), so string     *)
(* concatenation with "/" is Append and the regex "^" + p + "/" is the     *)
(* proper-prefix test on sequences.                                        *)
(***************************************************************************)
EXTENDS Integers, Sequences, FiniteSets, TLC

\* ---------------------------------------------------------------- bounds
\* Documents ever inserted per collection, in the sharing specification ...
MaxSharedFolders == 3
MaxSharedFiles == 1
MaxGrants == 2
MaxShares == 2
\* ... in the specification of concurrent shares ...
MaxRaceFolders == 1
\* ... in the quota specification ...
MaxQuotaFolders == 1
MaxQuotaFiles == 3
\* ... and in the tree specification
MaxFolders == 3
MaxFiles == 1
\* Instants the clock takes, and files in one upload request
MaxCalls == 2
MaxTime == 4
MaxUpload == 2
\* Files, files per upload request and files in the trash of the storage-usage runs
MaxUsageFiles == 22
MaxBatch == 20
MaxTrash == 1
\* Folders and files of the sweep runs
MaxSweepFolders == 1
MaxSweepFiles == 2
\* Folders, share records and grants of the runs with failing writes
MaxFaultFolders == 1
MaxFaultShares == 2
MaxFaultGrants == 2
\* Folders, share records and grants of the repeated shares
MaxReshareFolders == 2
MaxReshares == 3
MaxReshareGrants == 3
\* Folders, share records and grants of the cascades with failing children
MaxCascadeFolders == 3
MaxCascadeShares == 3
MaxCascadeGrants == 3
\* Folders, files, share records and grants of the shared items that are trashed
MaxTrashShareFolders == 2
MaxTrashShareFiles == 1
MaxTrashShares == 2
MaxVersions == 1
MaxVersionFolders == 1
MaxVersionFiles == 2
MaxLimit == 2
MaxOffset == 1
MaxRestoreItems == 2
MaxTrashRaceFolders == 2
MaxTrashRaceFiles == 1
MaxStates == 2
MaxTrashShareGrants == 2

\* ------------------------------------------------------------- universes
Users == {"u1", "u2"}
Names == {"a", "b"}
Owner == "u1"
Grantee == "u2"
SharedNames == {"a"}
Roles == {"viewer", "editor", "admin"}
Nil == 0

\* Concurrent ShareResource calls
Calls == 1..MaxCalls
Idle == [pc |-> "idle"]

\* relativePath[] values of an upload: directory parts, then the file name
RelativePaths == {<<"x">>, <<"a", "x">>}

\* An upload request: 1..most multipart files, each with a size and path
UploadRequests(sizes, most) ==
    UNION {[1..n -> [size : sizes, relative_path : RelativePaths]] : n \in 1..most}

\* ------------------------------------------------------ int64 byte counts
\* A byte count is hi * 2^30 + lo with 0 <= lo < 2^30, so that the 2 GiB cap
\* (2^31) and sums around it stay inside the checker's integers.
Limb == 1073741824

Bytes(hi, lo) == [hi |-> hi, lo |-> lo]

Zero64 == Bytes(0, 0)

Add64(a, b) ==
    LET s == a.lo + b.lo
    IN  IF s >= Limb THEN Bytes(a.hi + b.hi + 1, s - Limb) ELSE Bytes(a.hi + b.hi, s)

Sub64(a, b) ==
    LET d == a.lo - b.lo
    IN  IF d < 0 THEN Bytes(a.hi - b.hi - 1, d + Limb) ELSE Bytes(a.hi - b.hi, d)

Leq64(a, b) == a.hi < b.hi \/ (a.hi = b.hi /\ a.lo <= b.lo)

Gt64(a, b) == ~Leq64(a, b)

\* const maxUserStorage = 2 * 1024 * 1024 * 1024
maxUserStorage == Bytes(2, 0)

\* const maxFileSize = 100 * 1024 * 1024
maxFileSize == Bytes(0, 104857600)

SmallSizes == {Bytes(0, 101)}

\* Sizes and used-storage values around the limits: 101 bytes, 100 MiB and
\* one byte more; nothing, 1,999,999,999, and the last values under 2^31
QuotaSizes == {Bytes(0, 101), maxFileSize, Bytes(0, 104857601)}
QuotaStarts ==
    {Zero64, Bytes(1, 926258175), Bytes(1, Limb - 203), Bytes(1, Limb - 102),
     Bytes(1, Limb - 1), maxUserStorage}

\* ------------------------------------------------------------------ state
VARIABLES
    folders,      \* collection "folders":     id -> models.Folder
    files,        \* collection "files":       id -> models.File
    permissions,  \* collection "permissions": id -> models.Permission (a Grant)
    shares,       \* collection "shares":      id -> models.Share
    usedStorage,  \* users.used_storage, per user
    blobs,        \* object storage: the b2_file_id values that still exist
    ids,          \* ObjectID generators: number of ids handed out per collection
    now,          \* wall clock read by time.Now()
    last,         \* the last completed call and what it returned
    calls,        \* calls in flight: where each is, and what it read
    states        \* StateManager.states: OAuth state token -> StateInfo

vars == <<folders, files, permissions, shares, usedStorage, blobs, ids, now, last, calls, states>>

\* ------------------------------------------------------------ path helpers
IsUnder(p, q) ==
    \* q matches the regex "^" + p + "/"
    /\ Len(q) > Len(p)
    /\ SubSeq(q, 1, Len(p)) = p

MinOf(S) == CHOOSE x \in S : \A y \in S : x <= y

\* ------------------------------------------------- Permission Resolver
roleHierarchy == [viewer |-> 1, editor |-> 2, admin |-> 3]

hasRequiredRole(userRole, requiredRole) ==
    /\ userRole \in Roles
    /\ requiredRole \in Roles
    /\ roleHierarchy[userRole] >= roleHierarchy[requiredRole]

\* The filter {user_id, resource_id, resource_type, is_active: true}
\* The grant lookup without the is_active condition.
ActivePermissionsAnyState(userID, resourceID, resourceType) ==
    {i \in DOMAIN permissions : /\ permissions[i].user_id = userID
                                /\ permissions[i].resource_id = resourceID
                                /\ permissions[i].resource_type = resourceType}

ActivePermissions(userID, resourceID, resourceType) ==
    {i \in DOMAIN permissions : /\ permissions[i].user_id = userID
                                /\ permissions[i].resource_id = resourceID
                                /\ permissions[i].resource_type = resourceType
                                /\ permissions[i].is_active}

\* FindOne with that filter: the first match in insertion order, or none.
FindPermission(userID, resourceID, resourceType) ==
    IF \A i \in DOMAIN permissions : i \notin ActivePermissions(userID, resourceID, resourceType)
    THEN Nil
    ELSE MinOf(ActivePermissions(userID, resourceID, resourceType))

checkDirectPermission(userID, resourceID, resourceType, requiredRole) ==
    \E i \in {FindPermission(userID, resourceID, resourceType)} :
        i # Nil /\ hasRequiredRole(permissions[i].role, requiredRole)

\* A permission check returns (bool, error); the three outcomes that occur:
PermTrue == "true"
PermFalse == "false"
FolderNotFound == "folder not found"
FileNotFound == "file not found"

RECURSIVE HasFolderPermission(_, _, _)

\* HasFolderPermission without the owner branch: grants alone decide.
HasFolderPermissionByGrantsOnly(userID, folderID, requiredRole) ==
    IF ~(folderID \in DOMAIN folders /\ folders[folderID].deleted_at = Nil)
    THEN FolderNotFound
    ELSE LET folder == folders[folderID]
         IN  IF checkDirectPermission(userID, folderID, "folder", requiredRole)
             THEN PermTrue
             ELSE IF folder.parent_id # Nil
                  THEN HasFolderPermission(userID, folder.parent_id, requiredRole)
             ELSE PermFalse

\* HasFolderPermission without the walk up the parent chain.
HasFolderPermissionDirectOnly(userID, folderID, requiredRole) ==
    IF ~(folderID \in DOMAIN folders /\ folders[folderID].deleted_at = Nil)
    THEN FolderNotFound
    ELSE IF folders[folderID].owner_id = userID THEN PermTrue
    ELSE IF checkDirectPermission(userID, folderID, "folder", requiredRole) THEN PermTrue
    ELSE PermFalse

\* HasFolderPermission that finds the folder whether or not it is deleted.
HasFolderPermissionOfAny(userID, folderID, requiredRole) ==
    IF folderID \notin DOMAIN folders
    THEN FolderNotFound
    ELSE LET folder == folders[folderID]
         IN  IF folder.owner_id = userID THEN PermTrue
             ELSE IF checkDirectPermission(userID, folderID, "folder", requiredRole)
                  THEN PermTrue
             ELSE IF folder.parent_id # Nil
                  THEN HasFolderPermission(userID, folder.parent_id, requiredRole)
             ELSE PermFalse

HasFolderPermission(userID, folderID, requiredRole) ==
    IF ~(folderID \in DOMAIN folders /\ folders[folderID].deleted_at = Nil)
    THEN FolderNotFound
    ELSE LET folder == folders[folderID]
         IN  IF folder.owner_id = userID THEN PermTrue
             ELSE IF checkDirectPermission(userID, folderID, "folder", requiredRole)
                  THEN PermTrue
             ELSE IF folder.parent_id # Nil
                  THEN HasFolderPermission(userID, folder.parent_id, requiredRole)
             ELSE PermFalse

HasFilePermission(userID, fileID, requiredRole) ==
    IF ~(fileID \in DOMAIN files /\ files[fileID].deleted_at = Nil)
    THEN FileNotFound
    ELSE LET file == files[fileID]
         IN  IF file.owner_id = userID THEN PermTrue
             ELSE IF file.folder_id # Nil
                  THEN HasFolderPermission(userID, file.folder_id, requiredRole)
             ELSE IF checkDirectPermission(userID, fileID, "file", requiredRole)
                  THEN PermTrue
             ELSE PermFalse

\* ------------------------------------------------------------------ Init
Init ==
    /\ folders = << >>
    /\ files = << >>
    /\ permissions = << >>
    /\ shares = << >>
    /\ usedStorage = [u \in Users |-> Zero64]
    /\ blobs = {}
    /\ ids = [folders |-> 0, files |-> 0, permissions |-> 0, shares |-> 0, states |-> 0]
    /\ now = 1
    /\ last = [op |-> "init", id |-> Nil, res |-> "ok"]
    /\ calls = [c \in Calls |-> Idle]
    /\ states = << >>


\* A call that returns an error before its first write changes nothing and is
\* not a step; `last` names the last call that wrote, and what it returned.
Returned(op, id, res) == last' = [op |-> op, id |-> id, res |-> res]

InsertDoc(coll, id, doc) == [i \in DOMAIN coll \cup {id} |-> IF i = id THEN doc ELSE coll[i]]

DeleteDocs(coll, gone) == [i \in DOMAIN coll \ gone |-> coll[i]]

\* ------------------------------------------------- Folder/File Tree Service
\* getFolderPath: the names from the root down to folderID, or an error when
\* the folder or one of its ancestors does not pass the is_deleted filter.
RECURSIVE getFolderPath(_)
getFolderPath(folderID) ==
    IF ~(folderID \in DOMAIN folders /\ ~folders[folderID].is_deleted)
    THEN [ok |-> FALSE, path |-> << >>]
    ELSE LET folder == folders[folderID]
         IN  IF folder.parent_id = Nil
             THEN [ok |-> TRUE, path |-> <<folder.name>>]
             ELSE LET parentPath == getFolderPath(folder.parent_id)
                  IN  IF ~parentPath.ok THEN parentPath
                      ELSE [ok |-> TRUE, path |-> Append(parentPath.path, folder.name)]

NewFolder(name, ownerID, parentID, path) ==
    [name |-> name, owner_id |-> ownerID, parent_id |-> parentID, path |-> path,
     is_deleted |-> FALSE, deleted_at |-> Nil]

\* What a guarded call returns when the permission check does not pass
Denied(perm, forbidden) ==
    IF perm \notin {PermTrue, PermFalse} THEN "permission check failed"
    ELSE IF perm = PermFalse THEN forbidden
    ELSE "ok"

CreateFolderResult(name, parentID, ownerID) ==
    IF parentID # Nil /\ ~(parentID \in DOMAIN folders /\ ~folders[parentID].is_deleted)
    THEN "parent folder not found"
    ELSE IF parentID # Nil
            /\ Denied(HasFolderPermission(ownerID, parentID, "editor"), "insufficient permissions") # "ok"
    THEN Denied(HasFolderPermission(ownerID, parentID, "editor"), "insufficient permissions")
    ELSE IF \E i \in DOMAIN folders :
                /\ folders[i].name = name
                /\ folders[i].owner_id = ownerID
                /\ ~folders[i].is_deleted
                /\ folders[i].parent_id = parentID
    THEN "folder already exists"
    ELSE IF parentID # Nil /\ ~getFolderPath(parentID).ok
    THEN "failed to get parent path"
    ELSE "ok"

CreateFolder(name, parentID, ownerID) ==
    LET id == ids.folders + 1
        path == IF parentID = Nil THEN <<name>>
                ELSE Append(getFolderPath(parentID).path, name)
    IN  /\ CreateFolderResult(name, parentID, ownerID) = "ok"
        /\ folders' = InsertDoc(folders, id, NewFolder(name, ownerID, parentID, path))
        /\ ids' = [ids EXCEPT !.folders = id]
        /\ Returned("CreateFolder", id, "ok")
        /\ UNCHANGED <<files, permissions, shares, usedStorage, blobs, now, calls, states>>

\* GetFolderByID: the folder document, or the error
\* CreateFolder as the steps other calls can come between: the checks and the
\* path computation, then the InsertOne of the folder document.
CreateFolderBegin(c, name, parentID, ownerID) ==
    /\ calls[c] = Idle
    /\ CreateFolderResult(name, parentID, ownerID) = "ok"
    /\ calls' = [calls EXCEPT ![c] =
                    [pc |-> "insertFolder", name |-> name, parent |-> parentID,
                     owner |-> ownerID,
                     path |-> IF parentID = Nil THEN <<name>>
                              ELSE Append(getFolderPath(parentID).path, name)]]
    /\ UNCHANGED <<folders, files, permissions, shares, usedStorage, blobs, ids, now, last, states>>

CreateFolderInsert(c) ==
    /\ calls[c].pc = "insertFolder"
    /\ folders' = InsertDoc(folders, ids.folders + 1,
                            NewFolder(calls[c].name, calls[c].owner, calls[c].parent,
                                      calls[c].path))
    /\ ids' = [ids EXCEPT !.folders = @ + 1]
    /\ calls' = [calls EXCEPT ![c] = Idle]
    /\ Returned("CreateFolder", ids.folders + 1, "ok")
    /\ UNCHANGED <<files, permissions, shares, usedStorage, blobs, now, states>>

GetFolderByIDResult(folderID, userID) ==
    IF ~(folderID \in DOMAIN folders /\ ~folders[folderID].is_deleted)
    THEN "folder not found"
    ELSE Denied(HasFolderPermission(userID, folderID, "viewer"), "insufficient permissions")

RenameFolderResult(folderID, userID) ==
    LET perm == Denied(HasFolderPermission(userID, folderID, "editor"), "insufficient permissions")
    IN  IF perm # "ok" THEN perm
        ELSE IF ~(folderID \in DOMAIN folders /\ ~folders[folderID].is_deleted)
        THEN "folder not found"
        ELSE IF folders[folderID].parent_id # Nil /\ ~getFolderPath(folders[folderID].parent_id).ok
        THEN "failed to get parent path"
        ELSE "ok"

RenameFolder(folderID, newName, userID) ==
    LET newPath == IF folders[folderID].parent_id = Nil THEN <<newName>>
                   ELSE Append(getFolderPath(folders[folderID].parent_id).path, newName)
    IN  /\ RenameFolderResult(folderID, userID) = "ok"
        /\ folders' = [folders EXCEPT ![folderID].name = newName,
                                      ![folderID].path = newPath]
        /\ Returned("RenameFolder", folderID, "ok")
        /\ UNCHANGED <<files, permissions, shares, usedStorage, blobs, ids, now, calls, states>>

\* softDeleteSubfolders: the folders the recursive cascade below parentID marks.
RECURSIVE softDeleteSubfolders(_)
softDeleteSubfolders(parentID) ==
    LET subfolderIDs == {i \in DOMAIN folders :
                            folders[i].parent_id = parentID /\ ~folders[i].is_deleted}
    IN  subfolderIDs \cup UNION {softDeleteSubfolders(c) : c \in subfolderIDs}

\* softDeleteFiles, over every folder the cascade reached
softDeleteFiles(folderIDs) ==
    {i \in DOMAIN files : files[i].folder_id \in folderIDs /\ ~files[i].is_deleted}

MarkDeleted(coll, idSet, t) ==
    [i \in DOMAIN coll |->
        IF i \in idSet THEN [coll[i] EXCEPT !.is_deleted = TRUE, !.deleted_at = t]
        ELSE coll[i]]

DeleteFolderResult(folderID, userID) ==
    LET perm == Denied(HasFolderPermission(userID, folderID, "admin"), "insufficient permissions")
    IN  IF perm # "ok" THEN perm
        ELSE IF ~(folderID \in DOMAIN folders /\ ~folders[folderID].is_deleted)
        THEN "folder not found or already deleted"
        ELSE "ok"

\* fault = TRUE: a write inside the transaction fails and WithTransaction
\* aborts, so none of the callback's writes is committed.
DeleteFolder(folderID, userID, fault) ==
    LET marked == {folderID} \cup softDeleteSubfolders(folderID)
    IN  /\ DeleteFolderResult(folderID, userID) = "ok"
        /\ Returned("DeleteFolder", folderID, IF fault THEN "transaction failed" ELSE "ok")
        /\ IF ~fault
           THEN /\ folders' = MarkDeleted(folders, marked, now)
                /\ files' = MarkDeleted(files, softDeleteFiles(marked), now)
           ELSE UNCHANGED <<folders, files>>
        /\ UNCHANGED <<permissions, shares, usedStorage, blobs, ids, now, calls, states>>

DeleteFileFromFolderResult(folderID, fileID, userID) ==
    LET perm == Denied(HasFolderPermission(userID, folderID, "editor"), "insufficient permissions")
    IN  IF perm # "ok" THEN perm
        ELSE IF ~(/\ fileID \in DOMAIN files
                  /\ files[fileID].folder_id = folderID
                  /\ files[fileID].deleted_at = Nil)
        THEN "file not found in folder"
        ELSE "ok"

DeleteFileFromFolder(folderID, fileID, userID) ==
    /\ DeleteFileFromFolderResult(folderID, fileID, userID) = "ok"
    /\ files' = MarkDeleted(files, {fileID}, now)
    /\ Returned("DeleteFileFromFolder", fileID, "ok")
    /\ UNCHANGED <<folders, permissions, shares, usedStorage, blobs, ids, now, calls, states>>

\* GetOrCreateFolderPath walks the directory parts from the root, reusing the
\* caller's own non-deleted folder of that name or inserting a new one.  The
\* chain it walks consists of is_deleted = false folders named parts[1..k-1],
\* so getFolderPath of the current parent is SubSeq(parts, 1, k - 1).
RECURSIVE GetOrCreateFolderPath(_, _, _, _, _, _)
GetOrCreateFolderPath(parts, k, currentParentID, ownerID, fs, n) ==
    IF k > Len(parts) THEN [folders |-> fs, n |-> n, id |-> currentParentID]
    ELSE LET found == {i \in DOMAIN fs : /\ fs[i].name = parts[k]
                                         /\ fs[i].owner_id = ownerID
                                         /\ ~fs[i].is_deleted
                                         /\ fs[i].parent_id = currentParentID}
         IN  IF found # {}
             THEN GetOrCreateFolderPath(parts, k + 1, MinOf(found), ownerID, fs, n)
             ELSE GetOrCreateFolderPath(parts, k + 1, n + 1, ownerID,
                      InsertDoc(fs, n + 1,
                                NewFolder(parts[k], ownerID, currentParentID, SubSeq(parts, 1, k))),
                      n + 1)

NewFile(name, ownerID, folderID, relativePath, size, b2FileID) ==
    [name |-> name, owner_id |-> ownerID, folder_id |-> folderID, parent_id |-> Nil,
     relative_path |-> relativePath, size |-> size, b2_file_id |-> b2FileID,
     versions |-> {}, is_deleted |-> FALSE, deleted_at |-> Nil]

RECURSIVE TotalSize(_, _)
TotalSize(req, k) ==
    IF k > Len(req) THEN Zero64 ELSE Add64(req[k].size, TotalSize(req, k + 1))

\* CheckStorageQuota that compares the stored counter alone with the cap
CheckStorageQuotaOfUsedOnly(userID, additionalSize) ==
    Leq64(usedStorage[userID], maxUserStorage)

\* CheckStorageQuota: user.UsedStorage + additionalSize <= maxUserStorage
CheckStorageQuota(userID, additionalSize) ==
    Leq64(Add64(usedStorage[userID], additionalSize), maxUserStorage)

\* The per-file loop of UploadFiles.  failAt = k: the storage upload of the
\* k-th file fails, and cleanupUploadedFiles removes what the call had stored.
RECURSIVE UploadLoop(_, _, _, _, _)
UploadLoop(userID, req, k, failAt, st) ==
    IF k > Len(req) THEN st
    ELSE LET relativePath == req[k].relative_path
             folderPath == SubSeq(relativePath, 1, Len(relativePath) - 1)
             dir == GetOrCreateFolderPath(folderPath, 1, Nil, userID, st.folders, st.nFolders)
             id == st.nFiles + 1
         IN  IF k = failAt
             THEN [st EXCEPT !.folders = dir.folders, !.nFolders = dir.n,
                             !.files = DeleteDocs(st.files, st.uploaded),
                             !.blobs = st.blobs \ st.uploaded,
                             !.uploaded = {}, !.err = "failed to upload to B2"]
             ELSE UploadLoop(userID, req, k + 1, failAt,
                      [st EXCEPT !.folders = dir.folders, !.nFolders = dir.n,
                                 !.files = InsertDoc(st.files, id,
                                              NewFile(relativePath[Len(relativePath)], userID,
                                                      dir.id, relativePath, req[k].size, id)),
                                 !.blobs = st.blobs \cup {id},
                                 !.nFiles = id,
                                 !.uploaded = st.uploaded \cup {id}])

\* The checks of the upload handler and of UploadFiles before the first write
UploadFilesResult(userID, req) ==
    IF \E k \in 1..Len(req) : Gt64(req[k].size, maxFileSize)
    THEN "file exceeds maximum size of 100MB"
    ELSE IF ~CheckStorageQuota(userID, TotalSize(req, 1))
    THEN "upload would exceed storage limit of 2GB"
    ELSE "ok"

UploadFiles(userID, req, failAt) ==
    /\ UploadFilesResult(userID, req) = "ok"
    /\ \E st \in {UploadLoop(userID, req, 1, failAt,
                              [folders |-> folders, files |-> files, blobs |-> blobs,
                               nFolders |-> ids.folders, nFiles |-> ids.files,
                               uploaded |-> {}, err |-> "ok"])} :
          /\ folders' = st.folders
          /\ files' = st.files
          /\ blobs' = st.blobs
          /\ ids' = [ids EXCEPT !.folders = st.nFolders, !.files = st.nFiles]
          /\ usedStorage' = IF st.err = "ok"
                            THEN [usedStorage EXCEPT ![userID] = Add64(@, TotalSize(req, 1))]
                            ELSE usedStorage
          /\ Returned("UploadFiles", st.nFiles, st.err)
    /\ UNCHANGED <<permissions, shares, now, calls, states>>

DeleteFileResult(fileID, userID) ==
    Denied(HasFilePermission(userID, fileID, "admin"), "insufficient permissions")

\* The storage counter that is decremented is the caller's.
DeleteFile(fileID, userID) ==
    /\ DeleteFileResult(fileID, userID) = "ok"
    /\ files' = MarkDeleted(files, {fileID}, now)
    /\ usedStorage' = [usedStorage EXCEPT ![userID] = Sub64(@, files[fileID].size)]
    /\ Returned("DeleteFile", fileID, "ok")
    /\ UNCHANGED <<folders, permissions, shares, blobs, ids, now, calls, states>>

\* ------------------------------------------------- Trash Lifecycle Manager
ClearDeletedAt(coll, idSet) ==
    \* "$unset": {"deleted_at": ""}
    [i \in DOMAIN coll |->
        IF i \in idSet THEN [coll[i] EXCEPT !.deleted_at = Nil] ELSE coll[i]]

\* The trash lookup without the owner_id condition.
InTrashOfAnyOwner(coll, id, userID) ==
    /\ id \in DOMAIN coll
    /\ coll[id].deleted_at # Nil

InTrash(coll, id, userID) ==
    /\ id \in DOMAIN coll
    /\ coll[id].owner_id = userID
    /\ coll[id].deleted_at # Nil

\* RestoreFolder without the check of the parent folder.
LiveParentUnchecked(parentID, userID) == TRUE

LiveParent(parentID, userID) ==
    /\ parentID \in DOMAIN folders
    /\ folders[parentID].owner_id = userID
    /\ folders[parentID].deleted_at = Nil

RestoreFileResult(fileID, userID) ==
    IF ~InTrash(files, fileID, userID) THEN "file not found in trash"
    ELSE IF files[fileID].parent_id # Nil /\ ~LiveParent(files[fileID].parent_id, userID)
    THEN "cannot restore file: parent folder no longer exists or is deleted"
    ELSE "ok"

RestoreFile(fileID, userID) ==
    /\ RestoreFileResult(fileID, userID) = "ok"
    /\ files' = ClearDeletedAt(files, {fileID})
    /\ Returned("RestoreFile", fileID, "ok")
    /\ UNCHANGED <<folders, permissions, shares, usedStorage, blobs, ids, now, calls, states>>

RestoreFolderResult(folderID, userID) ==
    IF ~InTrash(folders, folderID, userID) THEN "folder not found in trash"
    ELSE IF folders[folderID].parent_id # Nil /\ ~LiveParent(folders[folderID].parent_id, userID)
    THEN "cannot restore folder: parent folder no longer exists or is deleted"
    ELSE "ok"

FoldersUnderPath(path, userID) ==
    {i \in DOMAIN folders : IsUnder(path, folders[i].path) /\ folders[i].owner_id = userID}

FilesUnderPath(path, userID) ==
    {i \in DOMAIN files : IsUnder(path, files[i].relative_path) /\ files[i].owner_id = userID}

RestoreFolder(folderID, userID, fault) ==
    LET path == folders[folderID].path
    IN  /\ RestoreFolderResult(folderID, userID) = "ok"
        /\ Returned("RestoreFolder", folderID, IF fault THEN "transaction failed" ELSE "ok")
        /\ IF ~fault
           THEN /\ folders' = ClearDeletedAt(folders, {folderID} \cup FoldersUnderPath(path, userID))
                /\ files' = ClearDeletedAt(files, FilesUnderPath(path, userID))
           ELSE UNCHANGED <<folders, files>>
        /\ UNCHANGED <<permissions, shares, usedStorage, blobs, ids, now, calls, states>>

\* One iteration of RestoreMultipleItems: RestoreFile or RestoreFolder on the
\* collections as the earlier iterations left them, and the result appended.
RestoreItemIn(st, item, userID) ==
    LET coll == IF item.type = "file" THEN st.files ELSE st.folders
        parentID == coll[item.id].parent_id
        restored == /\ item.type \in {"file", "folder"}
                    /\ item.id \in DOMAIN coll
                    /\ coll[item.id].owner_id = userID
                    /\ coll[item.id].deleted_at # Nil
                    /\ \/ parentID = Nil
                       \/ /\ parentID \in DOMAIN st.folders
                          /\ st.folders[parentID].owner_id = userID
                          /\ st.folders[parentID].deleted_at = Nil
        path == st.folders[item.id].path
        result == [id |-> item.id, type |-> item.type, success |-> restored]
    IN  IF ~restored THEN [st EXCEPT !.results = Append(@, result)]
        ELSE IF item.type = "file"
        THEN [st EXCEPT !.files = ClearDeletedAt(@, {item.id}),
                        !.results = Append(@, result)]
        ELSE [st EXCEPT !.folders = ClearDeletedAt(@, {item.id} \cup
                                        {i \in DOMAIN st.folders :
                                            /\ IsUnder(path, st.folders[i].path)
                                            /\ st.folders[i].owner_id = userID}),
                        !.files = ClearDeletedAt(@,
                                        {i \in DOMAIN st.files :
                                            /\ IsUnder(path, st.files[i].relative_path)
                                            /\ st.files[i].owner_id = userID}),
                        !.results = Append(@, result)]

RECURSIVE RestoreLoop(_, _, _, _)
RestoreLoop(userID, items, k, st) ==
    IF k > Len(items) THEN st
    ELSE RestoreLoop(userID, items, k + 1, RestoreItemIn(st, items[k], userID))

\* TrashService.RestoreMultipleItems; the call returns the result list and
\* no error, whatever the items did.
RestoreMultipleItems(userID, items) ==
    /\ \E st \in {RestoreLoop(userID, items, 1,
                              [folders |-> folders, files |-> files, results |-> << >>])} :
          /\ folders' = st.folders
          /\ files' = st.files
          /\ Returned("RestoreMultipleItems", Len(st.results), "ok")
    /\ UNCHANGED <<permissions, shares, usedStorage, blobs, ids, now, calls, states>>

\* The handler of POST /trash/restore-multiple: it converts the items of the
\* request and then calls the service with nil in their place.
TrashControllerRestoreMultipleItems(userID, req) ==
    /\ Len(req) > 0
    /\ RestoreMultipleItems(userID, << >>)

\* The storage handles of a file: the current blob and the blobs of its prior
\* versions.
HandlesOf(fileIDs) ==
    UNION {{files[i].b2_file_id} \cup files[i].versions : i \in fileIDs}

\* Replacing the content of a file: the blob in use becomes a prior version
\* and a new blob becomes the current one.  The service method that appends
\* to File.Versions is not among the sources; this follows the data model
\* (section 2: "optional list of prior versions, each an independent storage
\* handle").
AddFileVersion(fileID, userID) ==
    LET file == files[fileID]
        handle == 0 - (fileID * (MaxVersions + 1) + Cardinality(file.versions))
    IN  /\ file.owner_id = userID
        /\ ~file.is_deleted /\ file.deleted_at = Nil
        /\ Cardinality(file.versions) < MaxVersions
        /\ files' = [files EXCEPT ![fileID].versions = @ \cup {file.b2_file_id},
                                  ![fileID].b2_file_id = handle]
        /\ blobs' = blobs \cup {handle}
        /\ Returned("AddFileVersion", fileID, "ok")
        /\ UNCHANGED <<folders, permissions, shares, usedStorage, ids, now, calls, states>>

\* b2Service.DeleteFile for each file; storageDown = TRUE: the backend call
\* fails, which is logged and ignored.
BlobsAfterDelete(fileIDs, storageDown) ==
    IF storageDown THEN blobs ELSE blobs \ {files[i].b2_file_id : i \in fileIDs}

PurgeFileResult(fileID, userID) ==
    IF ~InTrash(files, fileID, userID) THEN "file not found in trash" ELSE "ok"

PurgeFile(fileID, userID, storageDown) ==
    /\ PurgeFileResult(fileID, userID) = "ok"
    /\ blobs' = BlobsAfterDelete({fileID}, storageDown)
    /\ files' = DeleteDocs(files, {fileID})
    /\ Returned("PurgeFile", fileID, "ok")
    /\ UNCHANGED <<folders, permissions, shares, usedStorage, ids, now, calls, states>>

PurgeFolderResult(folderID, userID) ==
    IF ~InTrash(folders, folderID, userID) THEN "folder not found in trash" ELSE "ok"

\* The blob deletes run inside the transaction callback but are not part of
\* the transaction: they stay done when the metadata writes are rolled back.
PurgeFolder(folderID, userID, fault, storageDown) ==
    LET path == folders[folderID].path
        goneFiles == FilesUnderPath(path, userID)
        goneFolders == FoldersUnderPath(path, userID)
    IN  /\ PurgeFolderResult(folderID, userID) = "ok"
        /\ Returned("PurgeFolder", folderID, IF fault THEN "transaction failed" ELSE "ok")
        /\ blobs' = BlobsAfterDelete(goneFiles, storageDown)
        /\ IF ~fault
           THEN /\ files' = DeleteDocs(files, goneFiles)
                /\ folders' = DeleteDocs(folders, {folderID} \cup goneFolders)
           ELSE UNCHANGED <<folders, files>>
        /\ UNCHANGED <<permissions, shares, usedStorage, ids, now, calls, states>>

TrashOf(coll, userID) == {i \in DOMAIN coll : coll[i].owner_id = userID /\ coll[i].deleted_at # Nil}

PurgeAllTrash(userID, fault, storageDown) ==
    LET goneFiles == TrashOf(files, userID)
        goneFolders == TrashOf(folders, userID)
    IN  /\ Returned("PurgeAllTrash",
                    IF fault THEN 0 ELSE Cardinality(goneFiles) + Cardinality(goneFolders),
                    IF fault THEN "transaction failed" ELSE "ok")
        /\ blobs' = BlobsAfterDelete(goneFiles, storageDown)
        /\ IF ~fault
           THEN /\ files' = DeleteDocs(files, goneFiles)
                /\ folders' = DeleteDocs(folders, goneFolders)
           ELSE UNCHANGED <<folders, files>>
        /\ UNCHANGED <<permissions, shares, usedStorage, ids, now, calls, states>>

\* time.Now().AddDate(0, 0, -30), in seconds
ThirtyDays == 2592000

Expired(coll) ==
    {i \in DOMAIN coll : coll[i].deleted_at # Nil /\ coll[i].deleted_at <= now - ThirtyDays}

AutoPurgeExpiredItems(fault, storageDown) ==
    LET goneFiles == Expired(files)
        goneFolders == Expired(folders)
    IN  /\ Returned("AutoPurgeExpiredItems", Nil, IF fault THEN "transaction failed" ELSE "ok")
        /\ blobs' = BlobsAfterDelete(goneFiles, storageDown)
        /\ IF ~fault
           THEN /\ files' = DeleteDocs(files, goneFiles)
                /\ folders' = DeleteDocs(folders, goneFolders)
           ELSE UNCHANGED <<folders, files>>
        /\ UNCHANGED <<permissions, shares, usedStorage, ids, now, calls, states>>

\* TrashCleaner (jobs): the same sweep, written against the field "deletedAt".
\* The documents carry their deletion time in the field "deleted_at", so a
\* filter on "deletedAt" with $ne nil selects the documents that have such a
\* field.  updateUserStorage filters users by the hex string of the id, which
\* matches no user document, so the storage counters stay as they are.
\* AutoPurgeExpiredItems as the steps other calls can come between: the Find
\* of the expired files with the blob deletes, which are outside the
\* transaction, then the two DeleteMany with the threshold of the call.  A
\* document written by another call in between no longer matches the filter,
\* on the first run of the transaction or on its retry.
AutoPurgeFind(c) ==
    /\ calls[c] = Idle
    /\ blobs' = BlobsAfterDelete(Expired(files), FALSE)
    /\ calls' = [calls EXCEPT ![c] = [pc |-> "deleteExpired",
                                      thirtyDaysAgo |-> now - ThirtyDays]]
    /\ UNCHANGED <<folders, files, permissions, shares, usedStorage, ids, now, last, states>>

AutoPurgeDelete(c) ==
    /\ calls[c].pc = "deleteExpired"
    /\ files' = DeleteDocs(files, {i \in DOMAIN files :
                                      /\ files[i].deleted_at # Nil
                                      /\ files[i].deleted_at <= calls[c].thirtyDaysAgo})
    /\ folders' = DeleteDocs(folders, {i \in DOMAIN folders :
                                          /\ folders[i].deleted_at # Nil
                                          /\ folders[i].deleted_at <= calls[c].thirtyDaysAgo})
    /\ calls' = [calls EXCEPT ![c] = Idle]
    /\ Returned("AutoPurgeExpiredItems", Nil, "ok")
    /\ UNCHANGED <<permissions, shares, usedStorage, blobs, ids, now, states>>

CleanerExpired(coll) ==
    {i \in DOMAIN coll : /\ "deletedAt" \in DOMAIN coll[i]
                         /\ coll[i].deletedAt # Nil
                         /\ coll[i].deletedAt <= now - ThirtyDays}

runCleanup(storageDown) ==
    LET goneFiles == IF storageDown THEN {} ELSE CleanerExpired(files)
        goneFolders == CleanerExpired(folders)
    IN  /\ Returned("runCleanup", Cardinality(goneFiles) + Cardinality(goneFolders), "ok")
        /\ blobs' = blobs \ HandlesOf(goneFiles)
        /\ files' = DeleteDocs(files, goneFiles)
        /\ folders' = DeleteDocs(folders, goneFolders)
        /\ UNCHANGED <<permissions, shares, usedStorage, ids, now, calls, states>>

\* Find with SetSort(deleted_at: -1): the orders in which the query can return
\* the matching documents (documents deleted at the same instant come in any
\* order).
SortedNewestFirst(coll, matching) ==
    {s \in [1..Cardinality(matching) -> matching] :
        /\ \A j, k \in DOMAIN s : j # k => s[j] # s[k]
        /\ \A j, k \in DOMAIN s : j < k => coll[s[j]].deleted_at >= coll[s[k]].deleted_at}

\* SetSkip(offset) and SetLimit(limit); a limit of 0 is no limit.
Page(s, limit, offset) ==
    SubSeq(s, offset + 1,
           IF limit = 0 \/ offset + limit > Len(s) THEN Len(s) ELSE offset + limit)

TrashItemOf(coll, itemType, id) ==
    [item_id |-> id, item_type |-> itemType, owner_id |-> coll[id].owner_id,
     deleted_at |-> coll[id].deleted_at,
     auto_purge_at |-> coll[id].deleted_at + ThirtyDays]

\* One Find of GetTrashItems: the pages it can return, as trash items
TrashPages(coll, itemType, userID, limit, offset) ==
    {[k \in DOMAIN p |-> TrashItemOf(coll, itemType, p[k])] :
        p \in {Page(s, limit, offset) :
                  s \in SortedNewestFirst(coll, {i \in DOMAIN coll : InTrash(coll, i, userID)})}}

\* The lists GetTrashItems can return: the page of files, then the page of
\* folders.
GetTrashItems(userID, itemType, limit, offset) ==
    {fs \o gs :
        fs \in IF itemType \in {"", "file"}
               THEN TrashPages(files, "file", userID, limit, offset) ELSE {<< >>},
        gs \in IF itemType \in {"", "folder"}
               THEN TrashPages(folders, "folder", userID, limit, offset) ELSE {<< >>}}

\* ------------------------------------------------------------ Share Manager
HasPermission(resourceType, userID, resourceID, requiredRole) ==
    IF resourceType = "folder"
    THEN HasFolderPermission(userID, resourceID, requiredRole)
    ELSE HasFilePermission(userID, resourceID, requiredRole)

\* validateSharePermission: admin on the resource
validateSharePermission(resourceID, resourceType, userID) ==
    HasPermission(resourceType, userID, resourceID, "admin")

getExistingShare(ss, resourceID, resourceType, sharedWith) ==
    {i \in DOMAIN ss : /\ ss[i].resource_id = resourceID
                       /\ ss[i].resource_type = resourceType
                       /\ ss[i].shared_with = sharedWith
                       /\ ss[i].is_active}

NewShare(resourceID, resourceType, sharedWith, sharedBy, role, t) ==
    [resource_id |-> resourceID, resource_type |-> resourceType,
     shared_with |-> sharedWith, shared_by |-> sharedBy, role |-> role,
     shared_at |-> t, is_active |-> TRUE, revoked_at |-> Nil, revoked_by |-> ""]

NewPermission(userID, role, resourceID, resourceType, grantedBy, t) ==
    [user_id |-> userID, role |-> role, resource_id |-> resourceID,
     resource_type |-> resourceType, granted_by |-> grantedBy, granted_at |-> t,
     is_active |-> TRUE, revoked_at |-> Nil, revoked_by |-> ""]

\* The lookup of PermissionService.ShareFolder / ShareFile: any document for
\* the triple, active or not.
ExistingPermission(ps, userID, resourceID, resourceType) ==
    {i \in DOMAIN ps : /\ ps[i].user_id = userID
                       /\ ps[i].resource_id = resourceID
                       /\ ps[i].resource_type = resourceType}

\* PermissionService.ShareFolder / ShareFile up to the write
SharePermissionResult(resourceType, resourceID, sharedWithUserID, sharedByUserID) ==
    LET perm == HasPermission(resourceType, sharedByUserID, resourceID, "admin")
    IN  IF perm \notin {PermTrue, PermFalse} THEN "permission check failed"
        ELSE IF perm = PermFalse THEN "insufficient permissions to share"
        ELSE IF sharedWithUserID = sharedByUserID THEN "cannot share with yourself"
        ELSE "ok"

\* ... its lookup of the document to update ...
\* ShareFolder without the lookup of the existing grant: always an insert.
SharePermissionLookupNever(ps, userID, resourceID, resourceType) == Nil

SharePermissionLookup(ps, userID, resourceID, resourceType) ==
    IF ExistingPermission(ps, userID, resourceID, resourceType) = {} THEN Nil
    ELSE MinOf(ExistingPermission(ps, userID, resourceID, resourceType))

\* ... and its write: InsertOne when the lookup found nothing, else UpdateOne
SharePermissionStore(st, existing, resourceType, resourceID, sharedWithUserID, role, sharedByUserID) ==
    IF existing = Nil
    THEN [st EXCEPT !.permissions =
                        InsertDoc(st.permissions, st.nPermissions + 1,
                                  NewPermission(sharedWithUserID, role, resourceID,
                                                resourceType, sharedByUserID, now)),
                    !.nPermissions = st.nPermissions + 1]
    ELSE [st EXCEPT !.permissions[existing] =
                        [@ EXCEPT !.role = role, !.granted_by = sharedByUserID,
                                  !.granted_at = now, !.is_active = TRUE]]

SharePermissionWrite(st, resourceType, resourceID, sharedWithUserID, role, sharedByUserID) ==
    SharePermissionStore(st,
        SharePermissionLookup(st.permissions, sharedWithUserID, resourceID, resourceType),
        resourceType, resourceID, sharedWithUserID, role, sharedByUserID)

\* shareChildFoldersRecursively.  The sharer's own rights do not change while
\* the cascade runs (every grant it writes is for the target user), so the
\* admin check of ShareFolder is evaluated on the state the call started in.
\* failing: the folders for which the permission write returns an error.
RECURSIVE shareChildFoldersRecursively(_, _, _, _, _, _)
RECURSIVE shareChildren(_, _, _, _, _, _)
shareChildFoldersRecursively(parentID, targetUserID, role, sharerID, failing, st) ==
    shareChildren({i \in DOMAIN folders : folders[i].parent_id = parentID /\ ~folders[i].is_deleted},
                  targetUserID, role, sharerID, failing, st)

shareChildren(todo, targetUserID, role, sharerID, failing, st) ==
    IF todo = {} THEN st
    ELSE LET child == MinOf(todo)
             sid == st.nShares + 1
             withShare == [st EXCEPT !.shares = InsertDoc(st.shares, sid,
                                         NewShare(child, "folder", targetUserID, sharerID, role, now)),
                                     !.nShares = sid]
             res == IF child \in failing THEN "failed to create permission"
                    ELSE SharePermissionResult("folder", child, targetUserID, sharerID)
             done == IF res # "ok"
                     THEN [withShare EXCEPT !.shares = DeleteDocs(withShare.shares, {sid})]
                     ELSE shareChildFoldersRecursively(child, targetUserID, role, sharerID, failing,
                              [SharePermissionWrite(withShare, "folder", child, targetUserID, role, sharerID)
                                 EXCEPT !.affected = @ + 1])
         IN  shareChildren(todo \ {child}, targetUserID, role, sharerID, failing, done)

ResourceIds(resourceType) == IF resourceType = "folder" THEN DOMAIN folders ELSE DOMAIN files

ShareResourceResult(request, sharerID) ==
    LET perm == validateSharePermission(request.resource_id, request.resource_type, sharerID)
    IN  IF perm \notin {PermTrue, PermFalse} THEN "permission validation failed"
        ELSE IF perm = PermFalse THEN "insufficient permissions to share resource"
        ELSE IF getExistingShare(shares, request.resource_id, request.resource_type,
                                 request.target) # {}
        THEN "resource already shared with this user"
        ELSE "ok"

\* The share record is inserted, the grant attempted; a failed grant deletes
\* the share record again, a successful one may cascade to the child folders.
ShareResourceWrites(request, sharerID, failing, grant) ==
    LET sid == ids.shares + 1
        st0 == [shares |-> InsertDoc(shares, sid,
                              NewShare(request.resource_id, request.resource_type,
                                       request.target, sharerID, request.role, now)),
                permissions |-> permissions,
                nShares |-> sid, nPermissions |-> ids.permissions, affected |-> 0]
    IN  IF grant # "ok"
        THEN [st0 EXCEPT !.shares = DeleteDocs(st0.shares, {sid})]
        ELSE IF request.resource_type = "folder" /\ request.inherit
        THEN shareChildFoldersRecursively(
                 request.resource_id, request.target, request.role, sharerID, failing,
                 SharePermissionWrite(st0, request.resource_type, request.resource_id,
                                      request.target, request.role, sharerID))
        ELSE SharePermissionWrite(st0, request.resource_type, request.resource_id,
                                  request.target, request.role, sharerID)

ShareResource(request, sharerID, failing) ==
    /\ ShareResourceResult(request, sharerID) = "ok"
    /\ \E grant \in {IF request.resource_type = "folder" /\ request.resource_id \in failing
                      THEN "failed to create permission"
                      ELSE SharePermissionResult(request.resource_type, request.resource_id,
                                                 request.target, sharerID)} :
         \E st \in {ShareResourceWrites(request, sharerID, failing, grant)} :
            /\ Returned("ShareResource", IF grant = "ok" THEN st.affected ELSE Nil,
                        IF grant # "ok" THEN "failed to grant permission" ELSE "ok")
            /\ shares' = st.shares
            /\ permissions' = st.permissions
            /\ ids' = [ids EXCEPT !.shares = st.nShares, !.permissions = st.nPermissions]
    /\ UNCHANGED <<folders, files, usedStorage, blobs, now, calls, states>>

\* The same call as the steps other calls can come between: the checks up
\* to getExistingShare, the insert of the share record, the check and lookup
\* of ShareFolder / ShareFile, and its write with the rest of the call.
ShareResourceBegin(c, request, sharerID) ==
    /\ calls[c] = Idle
    /\ ShareResourceResult(request, sharerID) = "ok"
    /\ calls' = [calls EXCEPT ![c] = [pc |-> "insertShare", request |-> request,
                                      sharer |-> sharerID, share |-> Nil, existing |-> Nil]]
    /\ UNCHANGED <<folders, files, permissions, shares, usedStorage, blobs, ids, now, last, states>>

ShareResourceInsert(c) ==
    /\ calls[c].pc = "insertShare"
    /\ shares' = InsertDoc(shares, ids.shares + 1,
                           NewShare(calls[c].request.resource_id, calls[c].request.resource_type,
                                    calls[c].request.target, calls[c].sharer,
                                    calls[c].request.role, now))
    /\ ids' = [ids EXCEPT !.shares = @ + 1]
    /\ calls' = [calls EXCEPT ![c].pc = "grant", ![c].share = ids.shares + 1]
    /\ UNCHANGED <<folders, files, permissions, usedStorage, blobs, now, last, states>>

ShareResourceLookup(c) ==
    LET request == calls[c].request
        grant == SharePermissionResult(request.resource_type, request.resource_id,
                                       request.target, calls[c].sharer)
    IN  /\ calls[c].pc = "grant"
        /\ IF grant # "ok"
           THEN /\ shares' = DeleteDocs(shares, {calls[c].share})
                /\ calls' = [calls EXCEPT ![c].pc = "done"]
                /\ Returned("ShareResource", Nil, "failed to grant permission")
           ELSE /\ calls' = [calls EXCEPT
                               ![c].pc = "store",
                               ![c].existing = SharePermissionLookup(
                                                   permissions, request.target,
                                                   request.resource_id, request.resource_type)]
                /\ UNCHANGED <<shares, last, states>>
        /\ UNCHANGED <<folders, files, permissions, usedStorage, blobs, ids, now, states>>

ShareResourceStore(c) ==
    LET request == calls[c].request
        st0 == [shares |-> shares, permissions |-> permissions, nShares |-> ids.shares,
                nPermissions |-> ids.permissions, affected |-> 0]
    IN  /\ calls[c].pc = "store"
        /\ \E st1 \in {SharePermissionStore(st0, calls[c].existing, request.resource_type,
                                            request.resource_id, request.target, request.role,
                                            calls[c].sharer)} :
             \E st \in {IF request.resource_type = "folder" /\ request.inherit
                         THEN shareChildFoldersRecursively(request.resource_id, request.target,
                                                           request.role, calls[c].sharer, {}, st1)
                         ELSE st1} :
                /\ shares' = st.shares
                /\ permissions' = st.permissions
                /\ ids' = [ids EXCEPT !.shares = st.nShares, !.permissions = st.nPermissions]
                /\ Returned("ShareResource", st.affected, "ok")
        /\ calls' = [calls EXCEPT ![c].pc = "done"]
        /\ UNCHANGED <<folders, files, usedStorage, blobs, now, states>>

ResourceOwner(resourceType, resourceID) ==
    IF resourceType = "folder" THEN folders[resourceID].owner_id ELSE files[resourceID].owner_id

\* PermissionService.RevokeFolderPermission / RevokeFilePermission
\* RevokeFolderPermission without the comparison of the target with the owner.
RevokeGrantResultAnyTarget(resourceType, resourceID, targetUserID, revokedByUserID) ==
    LET perm == HasPermission(resourceType, revokedByUserID, resourceID, "admin")
    IN  IF perm \notin {PermTrue, PermFalse} THEN "permission check failed"
        ELSE IF perm = PermFalse THEN "insufficient permissions to revoke access"
        ELSE IF FindPermission(targetUserID, resourceID, resourceType) = Nil THEN "no active permission found to revoke"
        ELSE "ok"

RevokeGrantResult(resourceType, resourceID, targetUserID, revokedByUserID) ==
    LET perm == HasPermission(resourceType, revokedByUserID, resourceID, "admin")
    IN  IF perm \notin {PermTrue, PermFalse} THEN "permission check failed"
        ELSE IF perm = PermFalse THEN "insufficient permissions to revoke access"
        ELSE IF ResourceOwner(resourceType, resourceID) = targetUserID
        THEN "cannot revoke owner's permissions"
        ELSE IF FindPermission(targetUserID, resourceID, resourceType) = Nil THEN "no active permission found to revoke"
        ELSE "ok"

RevokePermissionResult(shareID, userID) ==
    IF ~(shareID \in DOMAIN shares /\ shares[shareID].is_active) THEN "share not found"
    ELSE LET share == shares[shareID]
             perm == validateSharePermission(share.resource_id, share.resource_type, userID)
         IN  IF perm \notin {PermTrue, PermFalse} THEN "permission validation failed"
             ELSE IF perm = PermFalse /\ share.shared_by # userID
             THEN "insufficient permissions to revoke access"
             ELSE IF RevokeGrantResult(share.resource_type, share.resource_id,
                                       share.shared_with, userID) # "ok"
             THEN "failed to revoke permission"
             ELSE "ok"

\* shareWriteFails: the update of the share record after the grant was
\* deactivated returns an error.
RevokePermission(shareID, userID, shareWriteFails) ==
    LET share == shares[shareID]
    IN  /\ RevokePermissionResult(shareID, userID) = "ok"
        /\ Returned("RevokePermission", shareID,
                    IF shareWriteFails THEN "failed to update share record" ELSE "ok")
        /\ permissions' =
             [i \in DOMAIN permissions |->
                IF /\ permissions[i].user_id = share.shared_with
                   /\ permissions[i].resource_id = share.resource_id
                   /\ permissions[i].resource_type = share.resource_type
                   /\ permissions[i].is_active
                THEN [permissions[i] EXCEPT !.is_active = FALSE, !.revoked_at = now,
                                            !.revoked_by = userID]
                ELSE permissions[i]]
        /\ shares' = IF shareWriteFails THEN shares
                     ELSE [shares EXCEPT ![shareID].is_active = FALSE,
                                         ![shareID].revoked_at = now,
                                         ![shareID].revoked_by = userID]
        /\ UNCHANGED <<folders, files, usedStorage, blobs, ids, now, calls, states>>

\* PermissionService.UpdateFolderPermission / UpdateFilePermission
UpdateGrantResult(resourceType, resourceID, targetUserID, updatedByUserID) ==
    LET perm == HasPermission(resourceType, updatedByUserID, resourceID, "admin")
    IN  IF perm \notin {PermTrue, PermFalse} THEN "permission check failed"
        ELSE IF perm = PermFalse THEN "insufficient permissions to update permission"
        ELSE IF ResourceOwner(resourceType, resourceID) = targetUserID
        THEN "cannot update owner's permissions"
        ELSE IF FindPermission(targetUserID, resourceID, resourceType) = Nil THEN "no active permission found to update"
        ELSE "ok"

UpdatePermissionResult(shareID, userID) ==
    IF ~(shareID \in DOMAIN shares /\ shares[shareID].is_active) THEN "share not found"
    ELSE LET share == shares[shareID]
             perm == validateSharePermission(share.resource_id, share.resource_type, userID)
         IN  IF perm \notin {PermTrue, PermFalse} THEN "permission validation failed"
             ELSE IF perm = PermFalse THEN "insufficient permissions"
             ELSE IF UpdateGrantResult(share.resource_type, share.resource_id,
                                       share.shared_with, userID) # "ok"
             THEN "failed to update permission"
             ELSE "ok"

UpdatePermission(shareID, newRole, userID, shareWriteFails) ==
    LET share == shares[shareID]
    IN  /\ UpdatePermissionResult(shareID, userID) = "ok"
        /\ Returned("UpdatePermission", shareID,
                    IF shareWriteFails THEN "failed to update share record" ELSE "ok")
        /\ permissions' = [permissions EXCEPT ![FindPermission(share.shared_with, share.resource_id, share.resource_type)].role = newRole]
        /\ shares' = IF shareWriteFails THEN shares
                     ELSE [shares EXCEPT ![shareID].role = newRole]
        /\ UNCHANGED <<folders, files, usedStorage, blobs, ids, now, calls, states>>

\* ----------------------------------------------------------------- clock
\* The instants at which calls are made: the first, then 29 days 23 hours,
\* 30 days, and 30 days and 1, 2, ... seconds after it.
OneHour == 3600

Instant(k) ==
    IF k = 1 THEN 1
    ELSE IF k = 2 THEN 1 + ThirtyDays - OneHour
    ELSE 1 + ThirtyDays + (k - 3)

Tick ==
    /\ \E k \in 1..(MaxTime - 1) : now = Instant(k) /\ now' = Instant(k + 1)
    /\ UNCHANGED <<folders, files, permissions, shares, usedStorage, blobs, ids, last, calls, states>>


\* ------------------------------------------------------------ StateManager
\* Store, Validate and cleanup hold sm.mu from their first statement to their
\* return, so each is one step.
\* const OAuthStateExpiration = 10 * time.Minute, in seconds
OAuthStateExpiration == 600

Store(state, duration) ==
    states' = InsertDoc(states, state,
                        [created_at |-> now, expires_at |-> now + duration, used |-> FALSE])

\* GenerateState: 32 bytes of crypto/rand, a value no earlier call returned,
\* stored for OAuthStateExpiration.
GenerateState ==
    /\ Store(ids.states + 1, OAuthStateExpiration)
    /\ ids' = [ids EXCEPT !.states = @ + 1]
    /\ Returned("GenerateState", ids.states + 1, "ok")
    /\ UNCHANGED <<folders, files, permissions, shares, usedStorage, blobs, now, calls>>

\* Validate without the delete of the accepted state.
ValidateWithoutConsume(state) ==
    /\ IF state \notin DOMAIN states
       THEN /\ Returned("Validate", state, "false")
            /\ UNCHANGED states
       ELSE IF now > states[state].expires_at \/ states[state].used
       THEN /\ Returned("Validate", state, "false")
            /\ states' = DeleteDocs(states, {state})
       ELSE /\ Returned("Validate", state, "true")
            /\ UNCHANGED states
    /\ UNCHANGED <<folders, files, permissions, shares, usedStorage, blobs, ids, now, calls>>

Validate(state) ==
    /\ IF state \notin DOMAIN states
       THEN /\ Returned("Validate", state, "false")
            /\ UNCHANGED states
       ELSE IF now > states[state].expires_at \/ states[state].used
       THEN /\ Returned("Validate", state, "false")
            /\ states' = DeleteDocs(states, {state})
       ELSE /\ Returned("Validate", state, "true")
            /\ states' = DeleteDocs(states, {state})
    /\ UNCHANGED <<folders, files, permissions, shares, usedStorage, blobs, ids, now, calls>>

cleanup ==
    /\ states' = DeleteDocs(states, {s \in DOMAIN states : now > states[s].expires_at})
    /\ UNCHANGED <<folders, files, permissions, shares, usedStorage, blobs, ids, now, last, calls>>

\* ------------------------------------------------------------ specifications
\* What a specification lets the collections grow to.
Within(maxFolders, maxFiles, maxShares, maxGrants) ==
    /\ ids'.folders <= maxFolders
    /\ ids'.files <= maxFiles
    /\ ids'.shares <= maxShares
    /\ ids'.permissions <= maxGrants

\* The share requests for one resource and target user
ShareRequests(resourceType, resourceID, target) ==
    [resource_id : {resourceID}, resource_type : {resourceType},
     target : {target}, role : Roles, inherit : BOOLEAN]

\* Some user shares some resource with one of targets, under bounds.
Share(targets, bounds) ==
    /\ ids.shares < MaxShares
    /\ \E u \in Users, resourceType \in {"folder", "file"}, target \in targets :
         \E resourceID \in ResourceIds(resourceType) :
            /\ validateSharePermission(resourceID, resourceType, u) = PermTrue
            /\ \E request \in ShareRequests(resourceType, resourceID, target) :
                   ShareResource(request, u, {}) /\ bounds

SharedBounds == Within(MaxSharedFolders, MaxSharedFiles, MaxShares, MaxGrants)

\* Sharing among two users: the owner's folders and file, the folders the
\* other user creates beneath them, grants made, changed and revoked.
Next ==
    \/ \E name \in SharedNames, parentID \in {Nil} \cup DOMAIN folders :
          CreateFolder(name, parentID, Owner) /\ SharedBounds
    \/ \E name \in SharedNames, parentID \in DOMAIN folders :
          CreateFolder(name, parentID, Grantee) /\ SharedBounds
    \/ \E req \in UploadRequests(SmallSizes, 1) : UploadFiles(Owner, req, 0) /\ SharedBounds
    \/ Share(Users, SharedBounds)
    \/ \E shareID \in DOMAIN shares, u \in Users : RevokePermission(shareID, u, FALSE)
    \/ \E shareID \in DOMAIN shares, r \in Roles, u \in Users :
          UpdatePermission(shareID, r, u, FALSE)
    \/ \E i \in DOMAIN files, u \in Users : DeleteFile(i, u)

Spec == Init /\ [][Next]_vars

InheritBounds == Within(MaxSharedFolders, 0, MaxShares, MaxGrants)

\* Grants on a tree whose folders are deleted and restored.
NextInherit ==
    \/ \E name \in SharedNames, parentID \in {Nil} \cup DOMAIN folders :
          CreateFolder(name, parentID, Owner) /\ InheritBounds
    \/ \E name \in SharedNames, parentID \in DOMAIN folders :
          CreateFolder(name, parentID, Grantee) /\ InheritBounds
    \/ Share({Grantee}, InheritBounds)
    \/ \E shareID \in DOMAIN shares, u \in Users : RevokePermission(shareID, u, FALSE)
    \/ \E f \in DOMAIN folders : DeleteFolder(f, Owner, FALSE)
    \/ \E f \in DOMAIN folders : RestoreFolder(f, Owner, FALSE)

SpecInherit == Init /\ [][NextInherit]_vars

TreeBounds == Within(MaxFolders, MaxFiles, 0, 0)

\* One user's tree through rename, delete, restore and purge.
NextTree ==
    \/ \E name \in Names, parentID \in {Nil} \cup DOMAIN folders :
          CreateFolder(name, parentID, Owner) /\ TreeBounds
    \/ \E f \in DOMAIN folders, name \in Names : RenameFolder(f, name, Owner)
    \/ \E f \in DOMAIN folders, fault \in BOOLEAN : DeleteFolder(f, Owner, fault)
    \/ \E f \in DOMAIN folders, i \in DOMAIN files : DeleteFileFromFolder(f, i, Owner)
    \/ \E req \in UploadRequests(SmallSizes, 1) : UploadFiles(Owner, req, 0) /\ TreeBounds
    \/ \E i \in DOMAIN files : RestoreFile(i, Owner)
    \/ \E f \in DOMAIN folders, fault \in BOOLEAN : RestoreFolder(f, Owner, fault)
    \/ \E i \in DOMAIN files : PurgeFile(i, Owner, FALSE)
    \/ \E f \in DOMAIN folders, fault \in BOOLEAN : PurgeFolder(f, Owner, fault, FALSE)
    \/ \E fault \in BOOLEAN : PurgeAllTrash(Owner, fault, FALSE)

SpecTree == Init /\ [][NextTree]_vars

\* Two ShareResource calls, step by step, on the owner's folders.
NextShareRace ==
    \/ \E name \in SharedNames, parentID \in {Nil} \cup DOMAIN folders :
          CreateFolder(name, parentID, Owner) /\ Within(MaxRaceFolders, 0, 0, 0)
    \/ \E c \in Calls, resourceID \in DOMAIN folders, u \in Users :
          \E target \in Users : \E request \in ShareRequests("folder", resourceID, target) :
             ShareResourceBegin(c, request, u)
    \/ \E c \in Calls : ShareResourceInsert(c)
    \/ \E c \in Calls : ShareResourceLookup(c)
    \/ \E c \in Calls : ShareResourceStore(c)

SpecShareRace == Init /\ [][NextShareRace]_vars

\* Uploads of a user whose earlier files already fill part of the quota.
InitQuota ==
    /\ folders = << >>
    /\ files = << >>
    /\ permissions = << >>
    /\ shares = << >>
    /\ \E used \in QuotaStarts :
          usedStorage = [u \in Users |-> IF u = Owner THEN used ELSE Zero64]
    /\ blobs = {}
    /\ ids = [folders |-> 0, files |-> 0, permissions |-> 0, shares |-> 0, states |-> 0]
    /\ now = 1
    /\ last = [op |-> "init", id |-> Nil, res |-> "ok"]
    /\ calls = [c \in Calls |-> Idle]
    /\ states = << >>

NextQuota ==
    \/ \E req \in UploadRequests(QuotaSizes, MaxUpload), failAt \in 0..MaxUpload :
          UploadFiles(Owner, req, failAt) /\ Within(MaxQuotaFolders, MaxQuotaFiles, 0, 0)
    \/ \E i \in DOMAIN files : DeleteFile(i, Owner)

SpecQuota == InitQuota /\ [][NextQuota]_vars

\* Uploads of full-size files by one user, who deletes and restores them.
\* All files of a request have the largest size the upload accepts.
BatchRequests(most) ==
    {[k \in 1..n |-> [size |-> maxFileSize, relative_path |-> <<"x">>]] : n \in 1..most}

\* At most MaxTrash files carry a deletion marker
TrashWithin == Cardinality({i \in DOMAIN files' : files'[i].is_deleted}) <= MaxTrash

NextUsage ==
    \/ \E req \in BatchRequests(MaxBatch) :
          UploadFiles(Owner, req, 0) /\ Within(0, MaxUsageFiles, 0, 0)
    \/ \E i \in DOMAIN files :
          DeleteFile(i, Owner) /\ TrashWithin /\ usedStorage'[Owner].hi >= 0
    \/ \E i \in DOMAIN files : RestoreFile(i, Owner)

SpecUsage == Init /\ [][NextUsage]_vars

\* Files and folders that are deleted and age in the trash while the two
\* sweeps run.
NextSweep ==
    \/ \E req \in UploadRequests(SmallSizes, 1) :
          UploadFiles(Owner, req, 0) /\ Within(MaxSweepFolders, MaxSweepFiles, 0, 0)
    \/ \E i \in DOMAIN files : DeleteFile(i, Owner)
    \/ \E f \in DOMAIN folders : DeleteFolder(f, Owner, FALSE)
    \/ Tick
    \/ \E i \in DOMAIN files, storageDown \in BOOLEAN : PurgeFile(i, Owner, storageDown)
    \/ \E storageDown \in BOOLEAN : AutoPurgeExpiredItems(FALSE, storageDown)
    \/ \E storageDown \in BOOLEAN : runCleanup(storageDown)
    \/ \E n \in 1..MaxRestoreItems :
          \E req \in [1..n -> [id : DOMAIN files \cup DOMAIN folders,
                                type : {"file", "folder"}]] :
              TrashControllerRestoreMultipleItems(Owner, req)

SpecSweep == Init /\ [][NextSweep]_vars

\* Files that get prior versions, are deleted and are purged from the trash.
NextVersions ==
    \/ \E req \in UploadRequests(SmallSizes, 1) :
          UploadFiles(Owner, req, 0) /\ Within(MaxVersionFolders, MaxVersionFiles, 0, 0)
    \/ \E i \in DOMAIN files : AddFileVersion(i, Owner)
    \/ \E i \in DOMAIN files : DeleteFile(i, Owner)
    \/ \E f \in DOMAIN folders : DeleteFolder(f, Owner, FALSE)
    \/ \E i \in DOMAIN files, storageDown \in BOOLEAN : PurgeFile(i, Owner, storageDown)
    \/ \E f \in DOMAIN folders, fault, storageDown \in BOOLEAN :
          PurgeFolder(f, Owner, fault, storageDown)

SpecVersions == Init /\ [][NextVersions]_vars

\* Folder creation, deletion, restore and the sweep of the trash service, with
\* the creation and the sweep taken step by step: one request in flight that
\* creates a folder, and the background job.
NextTrashRace ==
    \/ \E name \in SharedNames, parentID \in {Nil} \cup DOMAIN folders :
          CreateFolderBegin(1, name, parentID, Owner) /\ ids.folders < MaxTrashRaceFolders
    \/ CreateFolderInsert(1) /\ Within(MaxTrashRaceFolders, MaxTrashRaceFiles, 0, 0)
    \/ \E req \in UploadRequests(SmallSizes, 1) :
          UploadFiles(Owner, req, 0) /\ Within(MaxTrashRaceFolders, MaxTrashRaceFiles, 0, 0)
    \/ \E i \in DOMAIN files : DeleteFile(i, Owner) /\ usedStorage'[Owner].hi >= 0
    \/ \E f \in DOMAIN folders : DeleteFolder(f, Owner, FALSE)
    \/ \E i \in DOMAIN files : RestoreFile(i, Owner)
    \/ Tick
    \/ AutoPurgeFind(MaxCalls)
    \/ AutoPurgeDelete(MaxCalls)

SpecTrashRace == Init /\ [][NextTrashRace]_vars

\* OAuth states that are generated, validated by concurrent callbacks and
\* evicted by the cleanup routine while the clock advances.
NextOAuth ==
    \/ GenerateState /\ ids'.states <= MaxStates
    \/ \E state \in 1..(MaxStates + 1) : Validate(state)
    \/ cleanup
    \/ Tick

SpecOAuth == Init /\ [][NextOAuth]_vars

\* Sharing among three users, with the failures a call can meet between its
\* two writes: the grant write of a share (per folder) and the share-record
\* write of a revoke or an update.
Members == Users \cup {"u3"}

InitMembers ==
    /\ folders = << >>
    /\ files = << >>
    /\ permissions = << >>
    /\ shares = << >>
    /\ usedStorage = [u \in Members |-> Zero64]
    /\ blobs = {}
    /\ ids = [folders |-> 0, files |-> 0, permissions |-> 0, shares |-> 0, states |-> 0]
    /\ now = 1
    /\ last = [op |-> "init", id |-> Nil, res |-> "ok"]
    /\ calls = [c \in Calls |-> Idle]
    /\ states = << >>

FaultBounds == Within(MaxFaultFolders, 0, MaxFaultShares, MaxFaultGrants)

NextShareFaults ==
    \/ \E name \in SharedNames, parentID \in {Nil} \cup DOMAIN folders :
          CreateFolder(name, parentID, Owner) /\ FaultBounds
    \/ /\ ids.shares < MaxFaultShares
       /\ \E u \in Members, resourceID \in DOMAIN folders :
            /\ validateSharePermission(resourceID, "folder", u) = PermTrue
            /\ \E target \in Members, failing \in SUBSET DOMAIN folders :
                 \E request \in ShareRequests("folder", resourceID, target) :
                    ShareResource(request, u, failing) /\ FaultBounds
    \/ \E shareID \in DOMAIN shares, u \in Members, shareWriteFails \in BOOLEAN :
          RevokePermission(shareID, u, shareWriteFails)
    \/ \E shareID \in DOMAIN shares, r \in Roles, u \in Members, shareWriteFails \in BOOLEAN :
          UpdatePermission(shareID, r, u, shareWriteFails)

SpecShareFaults == InitMembers /\ [][NextShareFaults]_vars

\* Sharing again: two users, a folder and its subfolder, and room for a share
\* to be repeated after a revoke or to meet an earlier share of a child.
ReshareBounds == Within(MaxReshareFolders, 0, MaxReshares, MaxReshareGrants)

NextReshare ==
    \/ \E name \in SharedNames, parentID \in {Nil} \cup DOMAIN folders :
          CreateFolder(name, parentID, Owner) /\ ReshareBounds
    \/ /\ ids.shares < MaxReshares
       /\ \E u \in Users, resourceID \in DOMAIN folders :
            /\ validateSharePermission(resourceID, "folder", u) = PermTrue
            /\ \E target \in Users :
                 \E request \in ShareRequests("folder", resourceID, target) :
                    ShareResource(request, u, {}) /\ ReshareBounds
    \/ \E shareID \in DOMAIN shares, u \in Users : RevokePermission(shareID, u, FALSE)
    \/ \E shareID \in DOMAIN shares, r \in Roles, u \in Users :
          UpdatePermission(shareID, r, u, FALSE)

SpecReshare == Init /\ [][NextReshare]_vars

\* An inherited share over a tree of the owner's folders in which the grant
\* write of any set of folders fails.
CascadeBounds == Within(MaxCascadeFolders, 0, MaxCascadeShares, MaxCascadeGrants)

NextCascade ==
    \/ \E name \in SharedNames, parentID \in {Nil} \cup DOMAIN folders :
          CreateFolder(name, parentID, Owner) /\ CascadeBounds
    \/ /\ ids.shares < MaxCascadeShares
       /\ \E resourceID \in DOMAIN folders, failing \in SUBSET DOMAIN folders :
             \E request \in ShareRequests("folder", resourceID, Grantee) :
                ShareResource(request, Owner, failing) /\ CascadeBounds
    \/ \E shareID \in DOMAIN shares : RevokePermission(shareID, Owner, FALSE)

SpecCascade == Init /\ [][NextCascade]_vars

\* FolderController.handleError: the status of the response, chosen by the
\* exact text of the error; a wrapped error matches no case.
StatusNotFound == 404
StatusForbidden == 403
StatusConflict == 409
StatusInternalServerError == 500

handleError(err, defaultStatus) ==
    IF err = "folder not found" THEN StatusNotFound
    ELSE IF err = "insufficient permissions" THEN StatusForbidden
    ELSE IF err = "parent folder not found" THEN StatusNotFound
    ELSE IF err = "insufficient permissions to share folder" THEN StatusForbidden
    ELSE IF err = "file not found in folder" THEN StatusNotFound
    ELSE IF err = "folder already exists" THEN StatusConflict
    ELSE IF err = "user with email not found" THEN StatusNotFound
    ELSE defaultStatus

\* Shared folders and files that go to the trash: the owner's tree, shares
\* with the other user, renames by either user, deletes by the owner.
TrashShareBounds == Within(MaxTrashShareFolders, MaxTrashShareFiles, MaxTrashShares, MaxTrashShareGrants)

NextTrashShare ==
    \/ \E name \in SharedNames, parentID \in {Nil} \cup DOMAIN folders :
          CreateFolder(name, parentID, Owner) /\ TrashShareBounds
    \/ \E req \in UploadRequests(SmallSizes, 1) : UploadFiles(Owner, req, 0) /\ TrashShareBounds
    \/ /\ ids.shares < MaxTrashShares
       /\ \E u \in Users, resourceType \in {"folder", "file"} :
            \E resourceID \in ResourceIds(resourceType) :
               /\ validateSharePermission(resourceID, resourceType, u) = PermTrue
               /\ \E request \in ShareRequests(resourceType, resourceID, Grantee) :
                     ShareResource(request, u, {}) /\ TrashShareBounds
    \/ \E f \in DOMAIN folders, name \in Names, u \in Users : RenameFolder(f, name, u)
    \/ \E f \in DOMAIN folders : DeleteFolder(f, Owner, FALSE)
    \/ \E i \in DOMAIN files : DeleteFile(i, Owner)

SpecTrashShare == Init /\ [][NextTrashShare]_vars

\* ------------------------------------------------------------------ claims
\* A record is Active when neither deletion marker is set, SoftDeleted when
\* both are.
Active(d) == ~d.is_deleted /\ d.deleted_at = Nil

SoftDeleted(d) == d.is_deleted /\ d.deleted_at # Nil

\* C1 (owner supremacy): for every Active folder or file and every required
\* role, the permission check for the resource's owner returns true, without
\* error, whatever grant records exist.
OwnerSupremacy ==
    /\ \A f \in DOMAIN folders :
          Active(folders[f]) =>
             \A r \in Roles : HasFolderPermission(folders[f].owner_id, f, r) = PermTrue
    /\ \A i \in DOMAIN files :
          Active(files[i]) =>
             \A r \in Roles : HasFilePermission(files[i].owner_id, i, r) = PermTrue

\* C1 witness: an Active file in an Active folder whose owner appears in no
\* grant record at all, while another user's grant on that folder has been
\* made and revoked.
OwnerWithoutGrant ==
    \E i \in DOMAIN files :
        /\ Active(files[i])
        /\ files[i].folder_id \in DOMAIN folders
        /\ Active(folders[files[i].folder_id])
        /\ \A p \in DOMAIN permissions : permissions[p].user_id # files[i].owner_id
        /\ \E p \in DOMAIN permissions :
              /\ ~permissions[p].is_active
              /\ permissions[p].resource_type = "folder"
              /\ permissions[p].resource_id = files[i].folder_id
        /\ last.op = "RevokePermission"

\* The folder and the folders above it, following parent_id through the
\* documents that exist.
RECURSIVE ChainUp(_)
ChainUp(f) ==
    IF f \notin DOMAIN folders THEN {}
    ELSE IF folders[f].parent_id = Nil THEN {f}
    ELSE {f} \cup ChainUp(folders[f].parent_id)

ActiveGrants(u, resourceType, resourceID) ==
    {p \in DOMAIN permissions : /\ permissions[p].user_id = u
                                /\ permissions[p].resource_type = resourceType
                                /\ permissions[p].resource_id = resourceID
                                /\ permissions[p].is_active}

\* F is an Active folder beneath the Active folder A, and u holds an active
\* grant on A and none on F or on a folder between the two.
InheritsFrom(u, F, A) ==
    /\ F # A
    /\ Active(folders[F])
    /\ Active(folders[A])
    /\ A \in ChainUp(F)
    /\ ActiveGrants(u, "folder", A) # {}
    /\ \A g \in ChainUp(F) \ ChainUp(A) : ActiveGrants(u, "folder", g) = {}

\* C2 (inheritance): a user with an active grant of role R on an Active
\* folder A passes the check for every role r <= R on every Active folder F
\* beneath A that has no active grant for the user on it or between it and A.
InheritanceCorrectness ==
    \A u \in Users, F \in DOMAIN folders, A \in DOMAIN folders :
        InheritsFrom(u, F, A) =>
           \A p \in ActiveGrants(u, "folder", A), r \in Roles :
              hasRequiredRole(permissions[p].role, r) =>
                 HasFolderPermission(u, F, r) = PermTrue

\* C2 witness: the owner has just created F two levels beneath A, after
\* the other user was granted editor on A; no grant targets F or its parent.
CreatedBeneathSharedFolder ==
    \E F \in DOMAIN folders, A \in DOMAIN folders :
        /\ last = [op |-> "CreateFolder", id |-> F, res |-> "ok"]
        /\ folders[F].owner_id = Owner
        /\ InheritsFrom(Grantee, F, A)
        /\ folders[F].parent_id # A
        /\ \E p \in ActiveGrants(Grantee, "folder", A) : permissions[p].role = "editor"

\* C3 (nearest match): a user who does not own the Active folder F and holds
\* an active direct grant of role R1 on it passes the check for role r
\* exactly when r <= R1, whatever the user holds on the folders above F.
NearestMatch ==
    \A u \in Users, F \in DOMAIN folders :
        (Active(folders[F]) /\ folders[F].owner_id # u) =>
           \A p \in ActiveGrants(u, "folder", F), r \in Roles :
              HasFolderPermission(u, F, r) =
                 IF hasRequiredRole(permissions[p].role, r) THEN PermTrue ELSE PermFalse

\* C4 (no duplicate active grants): once two concurrent Share calls for the
\* same grantee and resource have both finished, however their steps were
\* interleaved, exactly one active grant exists for the pair.
OneActiveGrantAfterConcurrentShares ==
    \A c1 \in Calls, c2 \in Calls :
        (/\ c1 # c2
         /\ calls[c1].pc = "done"
         /\ calls[c2].pc = "done"
         /\ calls[c1].sharer # calls[c1].request.target
         /\ calls[c2].sharer # calls[c2].request.target
         /\ calls[c1].request.target = calls[c2].request.target
         /\ calls[c1].request.resource_id = calls[c2].request.resource_id
         /\ calls[c1].request.resource_type = calls[c2].request.resource_type) =>
            Cardinality(ActiveGrants(calls[c1].request.target,
                                     calls[c1].request.resource_type,
                                     calls[c1].request.resource_id)) = 1

\* The folders beneath f
Descendants(f) == {g \in DOMAIN folders : g # f /\ f \in ChainUp(g)}

\* C5 (cascade atomicity): a DeleteFolder(F) call either changes no folder
\* and no file, or leaves F, every folder beneath F and every file that was
\* Active in one of them SoftDeleted with the timestamp of the call.
DeleteFolderCascadeAtomic ==
    [][\A f \in DOMAIN folders, fault \in BOOLEAN :
          DeleteFolder(f, Owner, fault) =>
             \/ UNCHANGED <<folders, files>>
             \/ /\ \A g \in {f} \cup Descendants(f) :
                      SoftDeleted(folders'[g]) /\ folders'[g].deleted_at = now
                /\ \A i \in DOMAIN files :
                      (Active(files[i]) /\ files[i].folder_id \in {f} \cup Descendants(f)) =>
                         SoftDeleted(files'[i]) /\ files'[i].deleted_at = now]_vars

\* C6 (restore needs a live parent): restoring a SoftDeleted file whose
\* containing folder is SoftDeleted or gone is rejected with the parent
\* error, so that the file stays SoftDeleted.
RestoreFileNeedsLiveFolder ==
    \A i \in DOMAIN files :
        (/\ SoftDeleted(files[i])
         /\ files[i].folder_id # Nil
         /\ \/ files[i].folder_id \notin DOMAIN folders
            \/ SoftDeleted(folders[files[i].folder_id])) =>
           RestoreFileResult(i, files[i].owner_id) =
              "cannot restore file: parent folder no longer exists or is deleted"

\* C7 (round trip): restoring a folder or file right after deleting it makes
\* it Active again, with the name, path, size and owner it had, and get,
\* rename and delete accept it as they did before.
DeleteRestoreRoundTrip ==
    [][/\ \A f \in DOMAIN folders :
            (/\ last = [op |-> "DeleteFolder", id |-> f, res |-> "ok"]
             /\ RestoreFolder(f, Owner, FALSE)) =>
               /\ Active(folders'[f])
               /\ (GetFolderByIDResult(f, Owner) = "ok")'
               /\ (RenameFolderResult(f, Owner) = "ok")'
               /\ (DeleteFolderResult(f, Owner) = "ok")'
       /\ \A i \in DOMAIN files :
            (/\ last = [op |-> "DeleteFileFromFolder", id |-> i, res |-> "ok"]
             /\ RestoreFile(i, Owner)) =>
               /\ Active(files'[i])
               /\ (DeleteFileFromFolderResult(files[i].folder_id, i, Owner) = "ok")']_vars

\* C8 (only SoftDeleted items are purged): a folder or file whose document
\* is removed in a step was SoftDeleted before the step.
OnlySoftDeletedPurged ==
    [][/\ \A f \in DOMAIN folders : f \notin DOMAIN folders' => SoftDeleted(folders[f])
       /\ \A i \in DOMAIN files : i \notin DOMAIN files' => SoftDeleted(files[i])]_vars

\* The names from the root down to f, following parent_id
RECURSIVE NamePath(_)
NamePath(f) ==
    IF folders[f].parent_id \in DOMAIN folders
    THEN Append(NamePath(folders[f].parent_id), folders[f].name)
    ELSE <<folders[f].name>>

\* C9 (path invariant): the stored path of every Active folder is the names
\* of its ancestors from the root down to itself.
PathInvariant ==
    \A f \in DOMAIN folders : Active(folders[f]) => folders[f].path = NamePath(f)

\* 2,000,000,000 bytes
TwoGB == Bytes(1, 926258176)

\* C10 (quota, as stated): every upload request that would take the user's
\* used storage above 2,000,000,000 bytes is rejected; so is the one that
\* takes it from 1,999,999,999 to 2,000,000,100.
QuotaRejectsAboveTwoGB ==
    \A req \in UploadRequests(QuotaSizes, MaxUpload) :
        Gt64(Add64(usedStorage[Owner], TotalSize(req, 1)), TwoGB) =>
           UploadFilesResult(Owner, req) # "ok"

\* C10 (quota, with the cap the code has): every upload request that would
\* take the user's used storage above 2,147,483,648 bytes is rejected with
\* an error, and an upload call that stores a blob, inserts a file or folder
\* document or changes used storage was within that cap when it started.
QuotaEnforced ==
    /\ [](\A req \in UploadRequests(QuotaSizes, MaxUpload) :
            Gt64(Add64(usedStorage[Owner], TotalSize(req, 1)), maxUserStorage) =>
               UploadFilesResult(Owner, req) \in
                  {"upload would exceed storage limit of 2GB",
                   "file exceeds maximum size of 100MB"})
    /\ [][\A req \in UploadRequests(QuotaSizes, MaxUpload), failAt \in 0..MaxUpload :
             UploadFiles(Owner, req, failAt) =>
                Leq64(Add64(usedStorage[Owner], TotalSize(req, 1)), maxUserStorage)]_vars

\* C10 witness: an upload has brought used storage to 2,147,483,647 bytes,
\* and the next upload of 101 bytes is rejected for the quota.
UploadRejectedAtCap ==
    /\ last.op = "UploadFiles"
    /\ last.res = "ok"
    /\ usedStorage[Owner] = Bytes(1, Limb - 1)
    /\ \A req \in UploadRequests({Bytes(0, 101)}, 1) :
          UploadFilesResult(Owner, req) = "upload would exceed storage limit of 2GB"


\* The sum of the sizes of the files in S
RECURSIVE SizeOfFiles(_)
SizeOfFiles(S) ==
    IF S = {} THEN Zero64
    ELSE LET i == MinOf(S) IN Add64(files[i].size, SizeOfFiles(S \ {i}))

\* C11 (quota invariant): the total size of the Active files a user owns
\* never exceeds the user's storage cap.
QuotaInvariant ==
    \A u \in Users :
        Leq64(SizeOfFiles({i \in DOMAIN files : files[i].owner_id = u /\ Active(files[i])}),
              maxUserStorage)


\* The auto-purge deadline of an item in the trash has passed
Due(d) == d.deleted_at # Nil /\ d.deleted_at + ThirtyDays <= now

\* What a sweep leaves of a collection: the items that are not due, unchanged
SweptExactly(coll, collAfter) ==
    /\ DOMAIN collAfter = {i \in DOMAIN coll : ~Due(coll[i])}
    /\ \A i \in DOMAIN collAfter : collAfter[i] = coll[i]

\* C12 (auto-purge boundary): a sweep, of either sweeper, removes exactly the
\* files and folders whose deletion time is at or before now minus 30 days,
\* and leaves every other item as it was.
SweepPurgesExpired ==
    [][(AutoPurgeExpiredItems(FALSE, FALSE) \/ runCleanup(FALSE)) =>
          SweptExactly(files, files') /\ SweptExactly(folders, folders')]_vars


\* The share record s and the grant p are about the same grantee, resource
\* and role
Mirrors(s, p) ==
    /\ permissions[p].user_id = shares[s].shared_with
    /\ permissions[p].resource_id = shares[s].resource_id
    /\ permissions[p].resource_type = shares[s].resource_type
    /\ permissions[p].role = shares[s].role

\* C13 (grant / share-record consistency): after every completed call, every
\* active share record has an active grant with the same grantee, resource,
\* resource type and role, and every active grant has such an active share
\* record.
GrantShareConsistent ==
    /\ \A s \in DOMAIN shares : shares[s].is_active =>
          \E p \in DOMAIN permissions : permissions[p].is_active /\ Mirrors(s, p)
    /\ \A p \in DOMAIN permissions : permissions[p].is_active =>
          \E s \in DOMAIN shares : shares[s].is_active /\ Mirrors(s, p)


SameTriple(p, q) ==
    /\ permissions[p].user_id = permissions[q].user_id
    /\ permissions[p].resource_id = permissions[q].resource_id
    /\ permissions[p].resource_type = permissions[q].resource_type

\* C14 (at most one active grant per pair, sequentially): after any sequence
\* of non-concurrent share, inherited share, revoke, role update and re-share
\* calls no two grant records have the same grantee, resource and resource
\* type, so at most one of them is active: a share after a revoke reuses the
\* revoked record.
OneGrantPerTriple ==
    \A p, q \in DOMAIN permissions : SameTriple(p, q) => p = q

\* A grant that was revoked and is active again after a second share.
GrantReactivated ==
    \E p \in DOMAIN permissions :
        /\ permissions[p].is_active
        /\ permissions[p].revoked_at # Nil
        /\ last.op = "ShareResource" /\ last.res = "ok"


\* The resolver as specified: the owner passes, otherwise the nearest folder
\* on the way up that carries an active grant of the user decides alone.
RECURSIVE HoldsRole(_, _, _)
HoldsRole(u, F, r) ==
    IF F \notin DOMAIN folders \/ ~Active(folders[F]) THEN FALSE
    ELSE IF folders[F].owner_id = u THEN TRUE
    ELSE IF ActiveGrants(u, "folder", F) # {}
    THEN \E p \in ActiveGrants(u, "folder", F) : hasRequiredRole(permissions[p].role, r)
    ELSE IF folders[F].parent_id # Nil THEN HoldsRole(u, folders[F].parent_id, r)
    ELSE FALSE

\* C15 (share requires admin): every share of a folder that is carried out,
\* that is, creates or modifies a grant or a share record, is made by a user
\* who holds admin on the folder by ownership, by a direct grant or by the
\* nearest inherited grant; the call of any other user is rejected.
ShareRequiresAdmin ==
    [][\A u \in Users, F \in DOMAIN folders, target \in Users :
          \A request \in ShareRequests("folder", F, target) :
             ShareResource(request, u, {}) => HoldsRole(u, F, "admin")]_vars


\* C16 (duplicate share is a conflict): a share never touches a grant that is
\* active when the call starts: the grantee's active grant on a folder keeps
\* its role, granter and timestamp through every share of that folder or of a
\* folder above it, and only a role update changes its role.
DuplicateShareConflict ==
    [][\A u \in Users, F \in DOMAIN folders, target \in Users :
          \A request \in ShareRequests("folder", F, target) :
             ShareResource(request, u, {}) =>
                \A p \in DOMAIN permissions :
                   permissions[p].is_active => permissions'[p] = permissions[p]]_vars


\* C17 (revoke authorization): for an active share whose grantee is not the
\* owner and still holds the active grant, the revoke asked by a user is
\* carried out exactly when that user holds admin on the folder or is the user
\* who made the share, also when that user holds admin no longer.
RevokeAuthorization ==
    \A s \in DOMAIN shares, u \in Members :
        (/\ shares[s].is_active
         /\ shares[s].resource_type = "folder"
         /\ ResourceOwner("folder", shares[s].resource_id) # shares[s].shared_with
         /\ ActiveGrants(shares[s].shared_with, "folder", shares[s].resource_id) # {}) =>
           ((RevokePermissionResult(s, u) = "ok") <=>
               (HoldsRole(u, shares[s].resource_id, "admin") \/ shares[s].shared_by = u))


Deactivated(doc, revoker) ==
    /\ ~doc.is_active
    /\ doc.revoked_at = now
    /\ doc.revoked_at # Nil
    /\ doc.revoked_by = revoker

\* C18 (revocation is deactivation): a revoke that succeeds keeps the share
\* record and every grant record, leaves the share record and the grantee's
\* grant inactive with the revoker and the time of the call recorded, and
\* afterwards the grantee's direct permission check on the resource fails for
\* every role.
RevocationDeactivates ==
    [][\A s \in DOMAIN shares, u \in Users :
          RevokePermission(s, u, FALSE) =>
             /\ DOMAIN shares' = DOMAIN shares
             /\ DOMAIN permissions' = DOMAIN permissions
             /\ Deactivated(shares'[s], u)
             /\ ActiveGrants(shares[s].shared_with, shares[s].resource_type,
                             shares[s].resource_id) # {}
             /\ \A p \in ActiveGrants(shares[s].shared_with, shares[s].resource_type,
                                      shares[s].resource_id) :
                   /\ Deactivated(permissions'[p], u)
                   /\ permissions'[p].role = permissions[p].role
             /\ \A r \in Roles :
                   ~(checkDirectPermission(shares[s].shared_with, shares[s].resource_id,
                                           shares[s].resource_type, r))']_vars

\* A revoke has just succeeded: the share record and the grant are kept,
\* inactive, with the revoker recorded.
RevokedKept ==
    /\ last.op = "RevokePermission" /\ last.res = "ok"
    /\ last.id \in DOMAIN shares
    /\ ~shares[last.id].is_active /\ shares[last.id].revoked_by \in Users
    /\ \E p \in DOMAIN permissions :
          /\ permissions[p].user_id = shares[last.id].shared_with
          /\ permissions[p].resource_id = shares[last.id].resource_id
          /\ permissions[p].resource_type = shares[last.id].resource_type
          /\ ~permissions[p].is_active
          /\ permissions[p].revoked_by = shares[last.id].revoked_by


TargetsOwner(s) ==
    shares[s].shared_with = ResourceOwner(shares[s].resource_type, shares[s].resource_id)

\* C19 (owner rights are structural): a revoke or a role update of a share
\* whose grantee owns the resource is rejected for every caller, before any
\* write, and after any sequence of shares, revokes and updates the owner of
\* an Active folder passes the permission check for every role.
OwnerRightsStructural ==
    /\ \A s \in DOMAIN shares, u \in Users :
          TargetsOwner(s) =>
             /\ RevokePermissionResult(s, u) # "ok"
             /\ UpdatePermissionResult(s, u) # "ok"
    /\ \A F \in DOMAIN folders, r \in Roles :
          Active(folders[F]) => HasFolderPermission(folders[F].owner_id, F, r) = PermTrue

\* An active share of a folder with its owner, made by an admin grantee, whose
\* revoke and role update by that admin stop at the comparison with the owner.
OwnerTargetRejected ==
    \E s \in DOMAIN shares, u \in Users :
        /\ shares[s].is_active
        /\ TargetsOwner(s)
        /\ ActiveGrants(shares[s].shared_with, shares[s].resource_type, shares[s].resource_id) # {}
        /\ validateSharePermission(shares[s].resource_id, shares[s].resource_type, u) = PermTrue
        /\ RevokeGrantResult(shares[s].resource_type, shares[s].resource_id,
                             shares[s].shared_with, u) = "cannot revoke owner's permissions"
        /\ UpdateGrantResult(shares[s].resource_type, shares[s].resource_id,
                             shares[s].shared_with, u) = "cannot update owner's permissions"


\* The folders beneath F that are not in the trash.
NonDeletedBelow(F) == {g \in Descendants(F) : ~SoftDeleted(folders[g])}

\* C20 (recursive share count): a successful share of a folder with inherit
\* set and no failing write leaves the grantee with an active grant of the requested role
\* on every folder beneath it that is not deleted, and returns the number of
\* those folders as the count of affected children.
RecursiveShareCount ==
    [][\A u \in Users, F \in DOMAIN folders, target \in Users :
          \A request \in ShareRequests("folder", F, target) :
             (request.inherit /\ ShareResource(request, u, {}) /\ last'.res = "ok") =>
                /\ \A g \in NonDeletedBelow(F) :
                      \E p \in DOMAIN permissions' :
                         /\ permissions'[p].user_id = target
                         /\ permissions'[p].resource_type = "folder"
                         /\ permissions'[p].resource_id = g
                         /\ permissions'[p].is_active
                         /\ permissions'[p].role = request.role
                /\ last'.id = Cardinality(NonDeletedBelow(F))]_vars


GrantedTo(ps, u, g, role) ==
    \E p \in DOMAIN ps : /\ ps[p].user_id = u
                         /\ ps[p].resource_type = "folder"
                         /\ ps[p].resource_id = g
                         /\ ps[p].is_active
                         /\ ps[p].role = role

\* What one call added for folder g: its new share records and the grants it
\* inserted or rewrote.
TouchedBy(g) ==
    \/ \E s \in DOMAIN shares' \ DOMAIN shares : shares'[s].resource_id = g
    \/ \E p \in DOMAIN permissions' :
          /\ permissions'[p].resource_id = g
          /\ (p \notin DOMAIN permissions \/ permissions'[p] # permissions[p])

\* C21 (best-effort cascade): when the grant write fails for some folders
\* beneath F during an inherited share of F, the call still succeeds and the
\* grantee holds the grant on F, every other non-deleted folder beneath F is
\* shared and counted, and a folder whose write failed has no share record and
\* no grant from the call.
BestEffortCascade ==
    [][\A F \in DOMAIN folders, failing \in SUBSET DOMAIN folders :
          \A request \in ShareRequests("folder", F, Grantee) :
             (/\ request.inherit
              /\ F \notin failing
              /\ ShareResource(request, Owner, failing)
              /\ last'.res = "ok") =>
                /\ GrantedTo(permissions', Grantee, F, request.role)
                /\ \A g \in NonDeletedBelow(F) \ failing :
                      GrantedTo(permissions', Grantee, g, request.role)
                /\ last'.id = Cardinality(NonDeletedBelow(F) \ failing)
                /\ \A g \in failing : ~TouchedBy(g)]_vars


\* C22 (soft-deleted is not found, not denied): the permission check on a
\* soft-deleted folder or file answers with the not-found error for every
\* user and role, and the rename of a soft-deleted folder reaches the caller
\* with the NotFound status.
SoftDeletedIsNotFound ==
    /\ \A F \in DOMAIN folders, u \in Users :
          SoftDeleted(folders[F]) =>
             /\ \A r \in Roles : HasFolderPermission(u, F, r) = FolderNotFound
             /\ handleError(RenameFolderResult(F, u), StatusInternalServerError) = StatusNotFound
    /\ \A i \in DOMAIN files, u \in Users, r \in Roles :
          SoftDeleted(files[i]) => HasFilePermission(u, i, r) = FileNotFound


RecordsOf(coll, resourceType, resourceID) ==
    {<<k, coll[k]>> : k \in {j \in DOMAIN coll : /\ coll[j].resource_type = resourceType
                                                  /\ coll[j].resource_id = resourceID}}

\* C23 (no rename or share of a trashed item): while a folder or file is
\* SoftDeleted every rename of the folder and every share of the item is
\* rejected for every user, and no step changes the folder's name or path or
\* any grant or share record of the item.
TrashedNotRenamedNorShared ==
    [][/\ \A F \in DOMAIN folders :
            SoftDeleted(folders[F]) =>
               /\ \A u \in Users : RenameFolderResult(F, u) # "ok"
               /\ \A u \in Users, target \in Users :
                     \A request \in ShareRequests("folder", F, target) :
                        ShareResourceResult(request, u) # "ok"
               /\ F \in DOMAIN folders' =>
                     /\ folders'[F].name = folders[F].name
                     /\ folders'[F].path = folders[F].path
               /\ RecordsOf(permissions', "folder", F) = RecordsOf(permissions, "folder", F)
               /\ RecordsOf(shares', "folder", F) = RecordsOf(shares, "folder", F)
       /\ \A i \in DOMAIN files :
            SoftDeleted(files[i]) =>
               /\ \A u \in Users, target \in Users :
                     \A request \in ShareRequests("file", i, target) :
                        ShareResourceResult(request, u) # "ok"
               /\ RecordsOf(permissions', "file", i) = RecordsOf(permissions, "file", i)
               /\ RecordsOf(shares', "file", i) = RecordsOf(shares, "file", i)]_vars

\* A shared folder and a shared file are in the trash, their grants still
\* active, after steps taken while they were there.
TrashedWhileShared ==
    /\ \E F \in DOMAIN folders :
          /\ SoftDeleted(folders[F])
          /\ ActiveGrants(Grantee, "folder", F) # {}
          /\ RenameFolderResult(F, Grantee) = "permission check failed"
    /\ \E i \in DOMAIN files :
          /\ SoftDeleted(files[i])
          /\ ActiveGrants(Grantee, "file", i) # {}
          /\ \A request \in ShareRequests("file", i, Grantee) :
                ShareResourceResult(request, Owner) = "permission validation failed"


ParentTrashedOrGone(F) ==
    /\ folders[F].parent_id # Nil
    /\ \/ folders[F].parent_id \notin DOMAIN folders
       \/ SoftDeleted(folders[folders[F].parent_id])

\* C24 (restore requires a live parent, folder): while the parent of a
\* SoftDeleted folder is SoftDeleted or no longer exists, the restore of that
\* folder is rejected for every caller before any write, so the folder and
\* the folders beneath it stay as they are.
RestoreFolderNeedsLiveParent ==
    \A F \in DOMAIN folders, u \in Users :
        (SoftDeleted(folders[F]) /\ ParentTrashedOrGone(F)) =>
           RestoreFolderResult(F, u) # "ok"

\* A folder in the trash below a folder in the trash, its restore by the owner
\* refused for the parent's sake, after the delete of the parent.
RestoreRefusedForParent ==
    \E F \in DOMAIN folders :
        /\ SoftDeleted(folders[F])
        /\ folders[F].parent_id \in DOMAIN folders
        /\ SoftDeleted(folders[folders[F].parent_id])
        /\ last.op = "DeleteFolder"
        /\ RestoreFolderResult(F, Owner) =
              "cannot restore folder: parent folder no longer exists or is deleted"


OwnTrashed(coll, id, u) == SoftDeleted(coll[id]) /\ coll[id].owner_id = u

\* C25 (trash operations are owner-only and trash-only): a restore or a purge
\* of a file or folder passes its checks only when the item is SoftDeleted and
\* owned by the caller; for an Active item and for any other caller, an admin
\* grantee included, it is rejected before any write and any blob delete.
TrashOwnerOnly ==
    /\ \A i \in DOMAIN files, u \in Users :
          /\ RestoreFileResult(i, u) = "ok" => OwnTrashed(files, i, u)
          /\ PurgeFileResult(i, u) = "ok" => OwnTrashed(files, i, u)
    /\ \A F \in DOMAIN folders, u \in Users :
          /\ RestoreFolderResult(F, u) = "ok" => OwnTrashed(folders, F, u)
          /\ PurgeFolderResult(F, u) = "ok" => OwnTrashed(folders, F, u)

\* A file in the trash on which the other user holds an active admin grant:
\* that user's restore and purge are refused, the owner's pass; and an Active
\* folder, for which the owner's restore and purge are refused.
TrashRefusesAdminGrantee ==
    /\ \E i \in DOMAIN files :
          /\ SoftDeleted(files[i])
          /\ \E p \in ActiveGrants(Grantee, "file", i) : permissions[p].role = "admin"
          /\ RestoreFileResult(i, Grantee) = "file not found in trash"
          /\ PurgeFileResult(i, Grantee) = "file not found in trash"
          /\ PurgeFileResult(i, files[i].owner_id) = "ok"
    /\ \E F \in DOMAIN folders :
          /\ Active(folders[F])
          /\ RestoreFolderResult(F, Owner) = "folder not found in trash"
          /\ PurgeFolderResult(F, Owner) = "folder not found in trash"


\* The folders and files of the subtree of F that are in the trash.
TrashedFoldersOf(F) == {g \in {F} \cup Descendants(F) : SoftDeleted(folders[g])}

TrashedFilesOf(F) ==
    {i \in DOMAIN files : /\ files[i].folder_id \in {F} \cup Descendants(F)
                          /\ SoftDeleted(files[i])}

\* C26 (restore cascades to the whole subtree): a restore of folder F that
\* commits leaves F, every SoftDeleted folder beneath it and every SoftDeleted
\* file in them Active, whatever renames went before the delete; a restore
\* whose transaction fails changes no folder and no file.
RestoreCascadesToSubtree ==
    [][\A F \in DOMAIN folders :
          /\ RestoreFolder(F, Owner, FALSE) =>
                /\ \A g \in TrashedFoldersOf(F) : Active(folders'[g])
                /\ \A i \in TrashedFilesOf(F) : Active(files'[i])
          /\ RestoreFolder(F, Owner, TRUE) => UNCHANGED <<folders, files>>]_vars


\* C27 (metadata purge survives storage failure): with the storage backend
\* refusing every blob delete, a manual purge of a file still removes its
\* record, and a sweep still removes the record of every file whose 30 days
\* have passed.
PurgeSurvivesStorageFailure ==
    [][/\ \A i \in DOMAIN files : (PurgeFile(i, Owner, TRUE) => i \notin DOMAIN files')
       /\ (AutoPurgeExpiredItems(FALSE, TRUE) \/ runCleanup(TRUE)) =>
             (\A i \in DOMAIN files : (Due(files[i]) => i \notin DOMAIN files'))]_vars

\* C28 (purge removes every version blob): when the storage deletes succeed,
\* a purge of a file, or of a folder holding files, leaves in storage neither
\* the current blob nor any prior version's blob of a file it purged.
PurgeRemovesVersionBlobs ==
    [][/\ \A i \in DOMAIN files :
              (PurgeFile(i, Owner, FALSE) => HandlesOf({i}) \cap blobs' = {})
       /\ \A f \in DOMAIN folders :
              (PurgeFolder(f, Owner, FALSE, FALSE) =>
                  HandlesOf(FilesUnderPath(folders[f].path, Owner)) \cap blobs' = {})]_vars


\* C29 (purge cascades to the whole subtree): a PurgeFolder(F) call that
\* succeeds leaves no metadata of F, of a folder beneath F or of a file in one
\* of them, and a call whose transaction fails removes no folder and no file.
PurgeCascadesToSubtree ==
    [][\A F \in DOMAIN folders :
          /\ PurgeFolder(F, Owner, FALSE, FALSE) =>
                /\ \A g \in {F} \cup Descendants(F) : g \notin DOMAIN folders'
                /\ \A i \in DOMAIN files :
                      (files[i].folder_id \in {F} \cup Descendants(F) => i \notin DOMAIN files')
          /\ PurgeFolder(F, Owner, TRUE, FALSE) => UNCHANGED <<folders, files>>]_vars


\* C30 (trash listing): every list GetTrashItems can return holds only
\* SoftDeleted folders and files of the calling user, each with an auto-purge
\* time of its deletion time plus 30 days, and is as a whole in the order of
\* deletion time, newest first.
TrashListingNewestFirst ==
    \A u \in Users, itemType \in {"", "file", "folder"},
       limit \in 0..MaxLimit, offset \in 0..MaxOffset :
        \A items \in GetTrashItems(u, itemType, limit, offset) :
            /\ \A k \in DOMAIN items :
                  \E d \in {IF items[k].item_type = "file"
                            THEN files[items[k].item_id] ELSE folders[items[k].item_id]} :
                      /\ d.owner_id = u
                      /\ SoftDeleted(d)
                      /\ items[k].deleted_at = d.deleted_at
                      /\ items[k].auto_purge_at = d.deleted_at + ThirtyDays
            /\ \A j, k \in DOMAIN items :
                  (j < k => items[j].deleted_at >= items[k].deleted_at)


\* C31 (bulk restore reports per item): a bulk restore succeeds as a call,
\* returns one result per requested item, and restores every requested file
\* that a restore of its own would restore.
BulkRestoreReportsPerItem ==
    [][\A n \in 1..MaxRestoreItems :
          \A req \in [1..n -> [id : DOMAIN files \cup DOMAIN folders, type : {"file", "folder"}]] :
              TrashControllerRestoreMultipleItems(Owner, req) =>
                 /\ last'.res = "ok"
                 /\ last'.id = Len(req)
                 /\ \A k \in DOMAIN req :
                       (req[k].type = "file" /\ RestoreFileResult(req[k].id, Owner) = "ok") =>
                          files'[req[k].id].deleted_at = Nil]_vars


\* C32 (sharing a file grants access): after a successful share of a file
\* with a user who is not its owner at role R, the file permission check is
\* true for that user at every role up to R, wherever the file is placed.
ShareFileGrantsAccess ==
    [][\A i \in DOMAIN files, u \in Users :
          \A request \in ShareRequests("file", i, Grantee) :
              (ShareResource(request, u, {}) /\ last'.res = "ok"
                  /\ files[i].owner_id # Grantee) =>
                 \A r \in Roles :
                    hasRequiredRole(request.role, r) =>
                       (HasFilePermission(Grantee, i, r))' = PermTrue]_vars


\* C33 (no Active item under a non-Active parent): no Active folder and no
\* Active file has a parent folder that is SoftDeleted or no longer exists.
NoActiveUnderNonActive ==
    /\ \A g \in DOMAIN folders :
          (Active(folders[g]) /\ folders[g].parent_id # Nil) =>
             /\ folders[g].parent_id \in DOMAIN folders
             /\ ~SoftDeleted(folders[folders[g].parent_id])
    /\ \A i \in DOMAIN files :
          (Active(files[i]) /\ files[i].folder_id # Nil) =>
             /\ files[i].folder_id \in DOMAIN folders
             /\ ~SoftDeleted(folders[files[i].folder_id])


\* C35 (sweep never strands a restored file): whatever the sweep and a restore
\* do to an expired file between each other's steps, a file that is out of
\* the trash has its blob in storage.
SweepNeverStrandsRestored ==
    \A i \in DOMAIN files :
        files[i].deleted_at = Nil => files[i].b2_file_id \in blobs


\* C34 (the two deletion markers agree): every folder and file record has
\* is_deleted set exactly when it has a deleted_at time.
DeletionMarkersAgree ==
    /\ \A f \in DOMAIN folders : folders[f].is_deleted <=> folders[f].deleted_at # Nil
    /\ \A i \in DOMAIN files : files[i].is_deleted <=> files[i].deleted_at # Nil


\* C36 (at most one active Share record per pair): no two active share
\* records name the same resource, resource type and grantee.
OneActiveSharePerPair ==
    \A s, t \in DOMAIN shares :
        (/\ shares[s].is_active
         /\ shares[t].is_active
         /\ shares[s].resource_id = shares[t].resource_id
         /\ shares[s].resource_type = shares[t].resource_type
         /\ shares[s].shared_with = shares[t].shared_with) => s = t


\* C37 (sibling names stay unique): no two Active folders of one owner under
\* one parent have the same name.
SiblingNamesUnique ==
    \A f, g \in DOMAIN folders :
        (/\ Active(folders[f])
         /\ Active(folders[g])
         /\ folders[f].owner_id = folders[g].owner_id
         /\ folders[f].parent_id = folders[g].parent_id
         /\ folders[f].name = folders[g].name) => f = g


\* C38 (deletion charges the owner): a successful DeleteFile takes the size of
\* the file off the used-storage counter of the file's owner, whoever the
\* caller is, changes no other user's counter and leaves no counter negative.
DeletionChargesOwner ==
    [][\A i \in DOMAIN files, u \in Users :
          DeleteFile(i, u) =>
             /\ usedStorage'[files[i].owner_id] =
                   Sub64(usedStorage[files[i].owner_id], files[i].size)
             /\ \A v \in Users \ {files[i].owner_id} : usedStorage'[v] = usedStorage[v]
             /\ \A v \in Users : usedStorage'[v].hi >= 0]_vars


\* C39 (OAuth state is single-use): a Validate accepts a state only if it is
\* stored and not past its expiry time, the accepted state is gone from the
\* store after the call, and no step puts back a state that was issued
\* before, so that no state is accepted twice.
OAuthStateSingleUse ==
    [][/\ \A state \in 1..(MaxStates + 1) :
             (Validate(state) /\ last'.res = "true") =>
                /\ state \in DOMAIN states
                /\ now <= states[state].expires_at
                /\ state \notin DOMAIN states'
       /\ \A state \in DOMAIN states' \ DOMAIN states : state > ids.states]_vars

\* A state was accepted, and a second Validate of it is refused.
OAuthStateConsumed ==
    /\ last = [op |-> "Validate", id |-> 1, res |-> "false"]
    /\ 1 \notin DOMAIN states
    /\ ids.states >= 1
    /\ now <= 1 + OAuthStateExpiration

====
